---- MODULE Spec2Model ----
(***************************************************************************)
(* A model of fxsnapshot's query machinery: the breadth-first traversal    *)
(* (query/breadth_first.rs), the shareable stream (query/stream.rs), the   *)
(* closure-conversion pipeline (query/fun.rs), the planner and plan        *)
(* executor (query/run.rs, query/value.rs) and the snapshot decoder        *)
(* (dump/mod.rs).                                                          *)
(*                                                                         *)
(* Each subsystem has its own specification (SpecBF, SpecStream, ...)      *)
(* over its own variables; the variables of the other subsystems stay at   *)
(* their idle value.                                                       *)
(***************************************************************************)
EXTENDS Integers, Sequences, FiniteSets, TLC

VARIABLES
    \* ---- the snapshot (dump/mod.rs) ----
    dump,       \* CoreDump: node id -> the node's edges
    node_order, \* the order CoreDump::nodes iterates node_offsets in
    node_attrs, \* node id -> the node's optional attributes (Node::size, ...)
    \* ---- breadth-first traversal (query/breadth_first.rs) ----
    visited,    \* BreadthFirst::visited: node id -> None | Some(Step)
    front,      \* BreadthFirst::front: the queue of reached, unproduced ids
    bf_pc,      \* "idle" | "start" | "iter" | "ended" | "panic"
    yielded,    \* history: the items returned by `next` so far, in order
    \* ---- shareable streams (query/stream.rs) ----
    cells,      \* the Rc allocations: cell id -> iterator state and strong count
    handles,    \* the Stream values the program holds: handle id -> cell id
    expected,   \* history: per handle, the results it has yet to yield
    last,       \* history: the handle, the result and the result due of the
                \* latest action, when it is a `next` or a test
    \* ---- a query: analysis, planning, execution (query/fun.rs, run.rs) ----
    expr,          \* the query's Expr, labeled in place by the labeler
    q_pc,          \* "idle" | "parsed" | "labeled" | "mapped" | "analyzed" |
                   \* "planned" | "done" | "error" | "panic"
    capture_map,   \* Option: the CaptureMap the builder built
    layouts,       \* Option: the ClosureLayouts of the StaticAnalysis
    static_error,  \* Option: the StaticError analysis failed with
    plan,          \* Option: the Plan of the query
    result,        \* Option: the outcome of running the plan and drawing its value
    misread,       \* history: whether a variable load in the run read a value
                   \* other than its variable's
    \* ---- the snapshot decoder (dump/mod.rs) ----
    bytes,         \* the node messages that follow the metadata, as read so far
    core_dump,     \* the CoreDump under construction, then constructed
    cd_pc,         \* "idle" | "scanning" | "ready"
    fetched,       \* history: the latest get_root or get_node call and its outcome
    \* ---- calls of function values (query/value.rs) ----
    called_first,  \* Option: the Function the calls began with
    called,        \* Option: the Function the latest call was made on
    passed,        \* history: the `actuals` of each call so far, in call order
    returned       \* Option: the EvalResult of the latest Function::call

snapshotVars == <<dump, node_order, node_attrs>>
bfVars == <<visited, front, bf_pc, yielded>>
streamVars == <<cells, handles, expected, last>>
queryVars == <<expr, q_pc, capture_map, layouts, static_error, plan, result, misread>>
decoderVars == <<bytes, core_dump, cd_pc, fetched>>
callVars == <<called_first, called, passed, returned>>

\* The variables each subsystem leaves alone.
notBF == <<node_order, node_attrs, streamVars, queryVars, decoderVars, callVars>>
notStream == <<snapshotVars, bfVars, queryVars, decoderVars, callVars>>
notQuery == <<bfVars, streamVars, decoderVars, callVars>>
notDecoder == <<snapshotVars, bfVars, streamVars, queryVars, callVars>>
notCall == <<snapshotVars, bfVars, streamVars, queryVars, decoderVars>>

vars == <<snapshotVars, bfVars, streamVars, queryVars, decoderVars, callVars>>

StreamIdle ==
    /\ cells = <<>>
    /\ handles = <<>>
    /\ expected = <<>>
    /\ last = <<>>

BFIdle ==
    /\ visited = <<>>
    /\ front = <<>>
    /\ bf_pc = "idle"
    /\ yielded = <<>>

QueryIdle ==
    /\ expr = <<>>
    /\ q_pc = "idle"
    /\ capture_map = <<>>
    /\ layouts = <<>>
    /\ static_error = <<>>
    /\ plan = <<>>
    /\ result = <<>>
    /\ misread = FALSE

CallIdle ==
    /\ called_first = <<>>
    /\ called = <<>>
    /\ passed = <<>>
    /\ returned = <<>>

DecoderIdle ==
    /\ bytes = <<>>
    /\ core_dump = <<>>
    /\ cd_pc = "idle"
    /\ fetched = <<>>

(***************************************************************************)
(* Option<T>: None is the empty sequence, Some(x) the one-element one.     *)
(***************************************************************************)
None == <<>>
Some(x) == <<x>>
IsSome(o) == o # <<>>
Unwrap(o) == o[1]

\* The sequences over S of length at most n.
SeqUpTo(S, n) == UNION { [1..k -> S] : k \in 0..n }

Reverse(s) == [i \in 1..Len(s) |-> s[Len(s) + 1 - i]]

(***************************************************************************)
(* Breadth-first traversal.                                                *)
(***************************************************************************)

\* Bounds of the snapshots traversed.
NumNodes == 3
MaxEdges == 3
MaxStarts == 2

\* The ids of the nodes present in the snapshot, and one id no node has.
NodeIds == 1..NumNodes
DanglingId == NumNodes + 1
Referents == {None} \cup {Some(i) : i \in NodeIds \cup {DanglingId}}

\* dump::Edge: the name stands for the edge's TwoByteString; the k-th edge of
\* a node is named k, so that the edges of one node are all distinct.
MkEdges(refs) == [k \in 1..Len(refs) |-> [referent |-> refs[k], name |-> Some(k)]]

\* The ways to give each node of S a list of referents, n referents in all at most.
RECURSIVE EdgeRefs(_, _)
EdgeRefs(S, n) ==
    IF S = {} THEN { <<>> }
    ELSE LET x == CHOOSE y \in S : TRUE IN
         UNION { { (x :> s) @@ rest : s \in [1..k -> Referents], rest \in EdgeRefs(S \ {x}, n - k) } :
                 k \in 0..n }

\* The snapshots of the nodes `ids`: every node has a list of edges, n edges
\* in all at most.
Dumps(ids, n) == { [id \in ids |-> MkEdges(r[id])] : r \in EdgeRefs(ids, n) }

has_node(d, id) == id \in DOMAIN d

get_node(d, id) == IF id \in DOMAIN d THEN Some([id |-> id, edges |-> d[id]]) ELSE None

\* BreadthFirst::path_from_start: walk the predecessor steps back to a start
\* node (an entry of None), then reverse.
RECURSIVE PathBack(_, _)
PathBack(vis, entry) ==
    IF IsSome(entry)
    THEN <<Unwrap(entry)>> \o PathBack(vis, vis[Unwrap(entry).origin])
    ELSE <<>>

\* The steps in the order the walk meets them, last step first.
path_from_start_unreversed(vis, id) ==
    IF id \in DOMAIN vis THEN Some(PathBack(vis, vis[id])) ELSE None

path_from_start(vis, id) ==
    IF id \in DOMAIN vis THEN Some(Reverse(PathBack(vis, vis[id]))) ELSE None

\* VecDeque::push_back and VecDeque::pop_front, as BreadthFirst uses them.
push_back(fr, x) == Append(fr, x)

pop_back(fr) == <<fr[Len(fr)], SubSeq(fr, 1, Len(fr) - 1)>>
pop_front(fr) == <<Head(fr), Tail(fr)>>

\* The loop of BreadthFirst::next over the popped node's edges, from edge k on:
\* an edge with a referent not yet in `visited` records its step and queues
\* the referent. Yields the new <<visited, front>>.
RECURSIVE ScanEdges(_, _, _, _, _)
ScanEdges(id, edges, k, vis, fr) ==
    IF k > Len(edges) THEN <<vis, fr>>
    ELSE LET edge == edges[k] IN
         IF IsSome(edge.referent) /\ Unwrap(edge.referent) \notin DOMAIN vis
         THEN ScanEdges(id, edges, k + 1,
                        (Unwrap(edge.referent) :> Some([origin |-> id, edge |-> edge])) @@ vis,
                        push_back(fr, Unwrap(edge.referent)))
         ELSE ScanEdges(id, edges, k + 1, vis, fr)

\* BreadthFirst::new on any snapshot.
BFInit ==
    /\ dump \in Dumps(NodeIds, MaxEdges)
    /\ visited = <<>>
    /\ front = <<>>
    /\ bf_pc = "start"
    /\ yielded = <<>>
    /\ node_order = <<>>
    /\ node_attrs = <<>>
    /\ StreamIdle
    /\ QueryIdle
    /\ DecoderIdle
    /\ CallIdle

\* BreadthFirst::set_start_node; the start nodes are all set before the
\* traversal is iterated (Paths::run).
set_start_node(node) ==
    /\ bf_pc = "start"
    /\ Len(front) < MaxStarts
    /\ IF has_node(dump, node)
       THEN /\ visited' = (node :> None) @@ visited
            /\ front' = push_back(front, node)
            /\ bf_pc' = bf_pc
       ELSE /\ bf_pc' = "panic"
            /\ UNCHANGED <<visited, front>>
    /\ UNCHANGED <<dump, yielded, notBF>>

\* BreadthFirst::next with a non-empty front.
BFNextSome ==
    /\ bf_pc \in {"start", "iter"}
    /\ front # <<>>
    /\ LET popped == pop_front(front)
           id == popped[1]
           node == get_node(dump, id)
       IN IF IsSome(node)
          THEN LET r == ScanEdges(id, Unwrap(node).edges, 1, visited, popped[2])
               IN /\ visited' = r[1]
                  /\ front' = r[2]
                  /\ yielded' = Append(yielded, [id |-> id, path |-> Unwrap(path_from_start(r[1], id))])
                  /\ bf_pc' = "iter"
          ELSE \* get_node(id).unwrap() on an id no node has
               /\ front' = popped[2]
               /\ bf_pc' = "panic"
               /\ UNCHANGED <<visited, yielded>>
    /\ UNCHANGED <<dump, notBF>>

\* BreadthFirst::next with an empty front: the end of the stream.
BFNextNone ==
    /\ bf_pc \in {"start", "iter", "ended"}
    /\ front = <<>>
    /\ bf_pc' = "ended"
    /\ UNCHANGED <<dump, visited, front, yielded, notBF>>

\* The ids of nodes are only ever compared, and the snapshots are closed under
\* renaming them: the start nodes are named in the order they are first set.
BFSetStart ==
    \E node \in NodeIds :
        /\ node <= Cardinality(DOMAIN visited) + 1
        /\ set_start_node(node)

NextBF ==
    \/ BFSetStart
    \/ BFNextSome
    \/ BFNextNone

SpecBF == BFInit /\ [][NextBF]_vars

(***************************************************************************)
(* Properties of the breadth-first traversal.                              *)
(***************************************************************************)

\* The start nodes set so far: those `visited` maps to None.
StartNodes == { id \in DOMAIN visited : visited[id] = None }

\* The nodes of the snapshot an edge of a node of S refers to.
Successors(S) ==
    { id \in DOMAIN dump :
        \E o \in S \cap DOMAIN dump : \E k \in 1..Len(dump[o]) : dump[o][k].referent = Some(id) }

\* The nodes reachable from S along edges, S included.
RECURSIVE Reachable(_)
Reachable(S) ==
    LET T == S \cup Successors(S) IN IF T = S THEN S ELSE Reachable(T)

\* The least number of edges from a node of S to `target`, which is reachable
\* from S; `seen` are the nodes nearer than d.
RECURSIVE Distance(_, _, _, _)
Distance(S, seen, target, d) ==
    IF target \in S THEN d
    ELSE Distance(Successors(S) \ (seen \cup S), seen \cup S, target, d + 1)

YieldCount(id) == Cardinality({ i \in 1..Len(yielded) : yielded[i].id = id })

\* C4: when the traversal has ended, every node reachable from the start set
\* has been yielded exactly once, and no unreachable node has been yielded.
C4_EachReachableExactlyOnce ==
    bf_pc = "ended" =>
        \A id \in DOMAIN dump :
            YieldCount(id) = (IF id \in Reachable(StartNodes) THEN 1 ELSE 0)

\* C5: the lengths of the paths `next` returns never decrease.
C5_PathLengthsNeverDecrease ==
    \A i, j \in 1..Len(yielded) :
        i < j => Len(yielded[i].path) <= Len(yielded[j].path)

C5_Witness ==
    /\ bf_pc = "ended"
    /\ Len(yielded) >= 3
    /\ Len(yielded[1].path) = 0
    /\ Len(yielded[2].path) = 1
    /\ Len(yielded[Len(yielded)].path) = 2

\* A path to `id`: it starts at a start node, every step's edge is an edge of
\* the step's origin and refers to the origin of the next step, the last to id.
IsPathTo(path, id) ==
    /\ IF path = <<>> THEN id \in StartNodes ELSE path[1].origin \in StartNodes
    /\ \A i \in 1..Len(path) :
          /\ path[i].origin \in DOMAIN dump
          /\ \E k \in 1..Len(dump[path[i].origin]) : dump[path[i].origin][k] = path[i].edge
          /\ IsSome(path[i].edge.referent)
          /\ Unwrap(path[i].edge.referent) = (IF i = Len(path) THEN id ELSE path[i + 1].origin)

\* C6: every path yielded is a path from a start node to the yielded node,
\* and no path from a start node to that node has fewer steps.
C6_YieldedPathsAreShortest ==
    \A i \in 1..Len(yielded) :
        /\ IsPathTo(yielded[i].path, yielded[i].id)
        /\ Len(yielded[i].path) = Distance(StartNodes, {}, yielded[i].id, 0)

\* A node with a direct and a longer route has been yielded, with others
\* reached in two steps.
C6_Witness ==
    /\ bf_pc = "ended"
    /\ \E i, j \in 1..Len(yielded) :
          /\ Len(yielded[i].path) = 1
          /\ Len(yielded[j].path) = 2
          /\ \E k \in 1..Len(dump[yielded[j].id]) :
                dump[yielded[j].id][k].referent = Some(yielded[i].id)

(***************************************************************************)
(* Shareable streams: Stream is an Rc around the iterator state.  A cell   *)
(* is one Rc allocation: its strong count `rc` and the iterator it holds,  *)
(* either a vector iterator over results still to come (`items`), or a     *)
(* filter adapter around another Stream (`inner`, a cell id).  An item 0   *)
(* stands for an Err result, any other item v for Ok(v).                   *)
(***************************************************************************)

\* Bounds of the streams.
MaxItems == 2
MaxValue == 2
MaxHandles == 2
MaxDepth == 1

StreamItems == 0..MaxValue

IterCell(items) == [kind |-> "iter", rc |-> 1, items |-> items, inner |-> 0]
FilterCell(inner) == [kind |-> "filter", rc |-> 1, items |-> <<>>, inner |-> inner]

\* The results of `next`.
NextNone == [tag |-> "none", v |-> 0]
NextSome(v) == [tag |-> "some", v |-> v]
NextErr == [tag |-> "err", v |-> 0]
\* `next` panicked: Rc::get_mut found another owner.
NextPanic == [tag |-> "panic", v |-> 0]
ItemResult(item) == IF item = 0 THEN NextErr ELSE NextSome(item)

\* The predicate of the filter adapters.
filter_test(v) == v % 2 = 0

FreshId(f) == CHOOSE c \in 1..(Cardinality(DOMAIN f) + 1) : c \notin DOMAIN f

strong_count(cs, c) == cs[c].rc

\* Rc::clone: one more owner of cell c.
rc_inc(cs, c) == [cs EXCEPT ![c].rc = @ + 1]

\* Dropping one owner of cell c; the last owner frees the cell and drops the
\* Stream it holds.
RECURSIVE rc_drop(_, _)
rc_drop(cs, c) ==
    IF cs[c].rc > 1 THEN [cs EXCEPT ![c].rc = @ - 1]
    ELSE LET rest == [d \in DOMAIN cs \ {c} |-> cs[d]] IN
         IF cs[c].kind = "filter" THEN rc_drop(rest, cs[c].inner) ELSE rest

\* A clone of a filter adapter that takes over the Stream the adapter holds
\* without becoming one more owner of its cell.
rc_clone_sharing_inner(cs, c) ==
    LET n == FreshId(cs) IN <<(n :> [cs[c] EXCEPT !.rc = 1]) @@ cs, n>>

\* CloneableStream::rc_clone: a new Rc around a clone of the iterator in c;
\* cloning a filter adapter clones the Stream it holds.
rc_clone(cs, c) ==
    LET n == FreshId(cs)
        shared == IF cs[c].kind = "filter" THEN rc_inc(cs, cs[c].inner) ELSE cs
    IN <<(n :> [cs[c] EXCEPT !.rc = 1]) @@ shared, n>>

\* Stream::next copying only when the iterator has more than two owners.
ensure_unique_above_two(cs, c) ==
    IF strong_count(cs, c) > 2
    THEN LET r == rc_clone(cs, c) IN <<rc_drop(r[1], c), r[2]>>
    ELSE <<cs, c>>

\* Stream::next without the copy: the shared iterator is left shared.
ensure_unique_skipped(cs, c) == <<cs, c>>

\* The first statement of Stream::next: a Stream that shares its cell replaces
\* it by a clone of its own.  Yields the cells and the Stream's cell.
ensure_unique(cs, c) ==
    IF strong_count(cs, c) > 1
    THEN LET r == rc_clone(cs, c) IN <<rc_drop(r[1], c), r[2]>>
    ELSE <<cs, c>>

\* Stream::next on the Stream at cell c, and cs_next on the iterator in c
\* (for a filter adapter, fallible_iterator's Filter::next: draw from the
\* inner Stream until a value passes, an error or the end).
RECURSIVE stream_next(_, _)
RECURSIVE cs_next(_, _)
stream_next(cs, c) ==
    LET own == ensure_unique(cs, c)
        r == cs_next(own[1], own[2])
    IN IF strong_count(own[1], own[2]) # 1
       THEN [cells |-> own[1], ptr |-> own[2], result |-> NextPanic]
       ELSE [cells |-> r.cells, ptr |-> own[2], result |-> r.result]

cs_next(cs, c) ==
    IF cs[c].kind = "iter"
    THEN IF cs[c].items = <<>>
         THEN [cells |-> cs, result |-> NextNone]
         ELSE [cells |-> [cs EXCEPT ![c].items = Tail(@)],
               result |-> ItemResult(Head(cs[c].items))]
    ELSE LET r == stream_next(cs, cs[c].inner)
             cs2 == [r.cells EXCEPT ![c].inner = r.ptr]
         IN IF r.result.tag = "some" /\ ~filter_test(r.result.v)
            THEN cs_next(cs2, c)
            ELSE [cells |-> cs2, result |-> r.result]

\* The adapters between cell c and the vector iterator it draws from.
RECURSIVE CellDepth(_, _)
CellDepth(cs, c) == IF cs[c].kind = "iter" THEN 0 ELSE 1 + CellDepth(cs, cs[c].inner)

\* What a filter adapter lets through of a sequence of items.
FilterSeq(items) == SelectSeq(items, LAMBDA v : v = 0 \/ filter_test(v))

\* The cells a Stream at cell c draws from, c first.
RECURSIVE CellChain(_, _)
CellChain(cs, c) == IF cs[c].kind = "iter" THEN <<c>> ELSE <<c>> \o CellChain(cs, cs[c].inner)

\* `order` followed by the cells of `chain` it lacks.
RECURSIVE AppendNew(_, _)
AppendNew(order, chain) ==
    IF chain = <<>> THEN order
    ELSE AppendNew(IF \E i \in 1..Len(order) : order[i] = Head(chain)
                   THEN order ELSE Append(order, Head(chain)),
                   Tail(chain))

\* The cells in use, in the order the handles from h on reach them.
RECURSIVE CellOrder(_, _, _, _)
CellOrder(cs, hs, h, order) ==
    IF \A g \in DOMAIN hs : g < h THEN order
    ELSE CellOrder(cs, hs, h + 1,
                   IF h \in DOMAIN hs THEN AppendNew(order, CellChain(cs, hs[h])) ELSE order)

\* The address of an allocation is immaterial: cells are numbered in the order
\* the handles reach them.  Yields <<cells, handles>>.
Renumbered(cs, hs) ==
    LET order == CellOrder(cs, hs, 1, <<>>)
        idx(c) == CHOOSE i \in 1..Len(order) : order[i] = c
    IN <<[i \in 1..Len(order) |->
            [cs[order[i]] EXCEPT !.inner = IF @ = 0 THEN 0 ELSE idx(@)]],
         [h \in DOMAIN hs |-> idx(hs[h])]>>

\* StreamLiteral::run: a Stream over a vector of results.
StreamInit ==
    /\ \E items \in SeqUpTo(StreamItems, MaxItems) :
          /\ cells = (1 :> IterCell(items))
          /\ expected = (1 :> items)
    /\ handles = (1 :> 1)
    /\ last = None
    /\ dump = <<>>
    /\ node_order = <<>>
    /\ node_attrs = <<>>
    /\ BFIdle
    /\ QueryIdle
    /\ DecoderIdle
    /\ CallIdle

\* Stream::clone (derived): another handle on the same cell.
StreamClone(h) ==
    /\ Cardinality(DOMAIN handles) < MaxHandles
    /\ LET n == FreshId(handles)
           r == Renumbered(rc_inc(cells, handles[h]), (n :> handles[h]) @@ handles)
       IN /\ cells' = r[1]
          /\ handles' = r[2]
          /\ expected' = (n :> expected[h]) @@ expected
    /\ last' = None
    /\ UNCHANGED notStream

\* Filter::run: a new Stream around a filter adapter that holds a clone of h.
StreamFilter(h) ==
    /\ Cardinality(DOMAIN handles) < MaxHandles
    /\ CellDepth(cells, handles[h]) < MaxDepth
    /\ LET n == FreshId(handles)
           c == FreshId(cells)
           r == Renumbered((c :> FilterCell(handles[h])) @@ rc_inc(cells, handles[h]),
                           (n :> c) @@ handles)
       IN /\ cells' = r[1]
          /\ handles' = r[2]
          /\ expected' = (n :> FilterSeq(expected[h])) @@ expected
    /\ last' = None
    /\ UNCHANGED notStream

\* Stream::next on handle h.
StreamNext(h) ==
    LET r == stream_next(cells, handles[h])
        m == Renumbered(r.cells, [handles EXCEPT ![h] = r.ptr])
    IN
    /\ cells' = m[1]
    /\ handles' = m[2]
    /\ last' = Some([op |-> "next", h |-> h,
                     result |-> r.result,
                     due |-> IF expected[h] = <<>> THEN NextNone
                             ELSE ItemResult(Head(expected[h]))])
    /\ expected' = [expected EXCEPT ![h] = IF @ = <<>> THEN @ ELSE Tail(@)]
    /\ UNCHANGED notStream

\* A Stream value goes out of scope.
StreamDrop(h) ==
    /\ LET r == Renumbered(rc_drop(cells, handles[h]),
                           [g \in DOMAIN handles \ {h} |-> handles[g]])
       IN /\ cells' = r[1]
          /\ handles' = r[2]
    /\ expected' = [g \in DOMAIN expected \ {h} |-> expected[g]]
    /\ last' = None
    /\ UNCHANGED notStream

StreamCloneAny == \E h \in DOMAIN handles : StreamClone(h)
StreamFilterAny == \E h \in DOMAIN handles : StreamFilter(h)
StreamNextAny == \E h \in DOMAIN handles : StreamNext(h)
StreamDropAny == \E h \in DOMAIN handles : StreamDrop(h)

NextStream ==
    \/ StreamCloneAny
    \/ StreamFilterAny
    \/ StreamNextAny
    \/ StreamDropAny

SpecStream == StreamInit /\ [][NextStream]_vars

(***************************************************************************)
(* Properties of the streams.                                              *)
(***************************************************************************)

\* The items the Stream at cell c would yield if drawn to its end.
RECURSIVE Drain(_, _)
Drain(cs, c) ==
    IF cs[c].kind = "iter" THEN cs[c].items ELSE FilterSeq(Drain(cs, cs[c].inner))

\* C3: every handle yields, whatever the other handles draw, the results the
\* stream had yet to yield when the handle was made: each `next` returns
\* the result due, and leaves to every handle the results due to it.
C3_ClonesAreIndependent ==
    /\ \A h \in DOMAIN handles : Drain(cells, handles[h]) = expected[h]
    /\ IsSome(last) => Unwrap(last).result = Unwrap(last).due

\* Two handles of one stream have each drawn from it, to different positions.
C3_Witness ==
    /\ IsSome(last)
    /\ Unwrap(last).result.tag = "some"
    /\ \E h1, h2 \in DOMAIN handles :
          /\ handles[h1] # handles[h2]
          /\ cells[handles[h1]].kind = "iter"
          /\ cells[handles[h2]].kind = "iter"
          /\ Len(expected[h1]) < MaxItems
          /\ Len(expected[h2]) < Len(expected[h1])

(***************************************************************************)
(* Query expressions (query/ast.rs): Expr and Predicate, as records.       *)
(***************************************************************************)
Number(n) == [type |-> "Number", n |-> n]
String(s) == [type |-> "String", s |-> s]
StreamLiteral(elts) == [type |-> "StreamLiteral", elts |-> elts]
PredicateOp(id, stream, predicate) ==
    [type |-> "PredicateOp", id |-> id, stream |-> stream, op |-> "Filter",
     predicate |-> predicate]
\* Var::Root, Var::Nodes, ...: `var` is the variant's name.
Var(var) == [type |-> "Var", var |-> var]
Lexical(id, name) == [type |-> "Var", var |-> "Lexical", id |-> id, name |-> name]
App(arg, fun) == [type |-> "App", arg |-> arg, fun |-> fun]
Lambda(id, formals, body) ==
    [type |-> "Lambda", id |-> id, formals |-> formals, body |-> body]

IsLexical(e) == e.type = "Var" /\ e.var = "Lexical"
\* The expressions the labeler gives a LambdaId.
IsFrame(e) == e.type \in {"Lambda", "PredicateOp"}

\* Predicate::Expr, ::Field, ::Ends/::Any/::All/::Not, ::And/::Or.
PredExpr(e) == [pred |-> "Expr", expr |-> e]
PredField(name, sub) == [pred |-> "Field", name |-> name, sub |-> sub]
PredUnary(kind, sub) == [pred |-> kind, sub |-> sub]
PredJunction(kind, subs) == [pred |-> kind, subs |-> subs]
\* Predicate::Regex: the regex is held as the set of strings it matches.
PredRegex(regex) == [pred |-> "Regex", regex |-> regex]

UnaryPreds == {"Field", "Ends", "Any", "All", "Not"}
JunctionPreds == {"And", "Or"}

(***************************************************************************)
(* ExprLabeler (query/fun.rs): a WalkerMut that numbers the lambdas and    *)
(* predicate-ops, and the lexical variable uses.  The walks yield          *)
(* <<the labeled tree, the labeler>>.                                      *)
(***************************************************************************)
ExprLabeler_new == [next_lambda |-> 0, next_use |-> 0]

\* A labeler that hands out an id twice: the counter is not advanced.
next_lambda_stuck(l) == <<l.next_lambda, l>>

\* ExprLabeler::next_lambda, next_use: <<the id, the labeler afterwards>>.
next_lambda(l) == <<l.next_lambda, [l EXCEPT !.next_lambda = @ + 1]>>
next_use(l) == <<l.next_use, [l EXCEPT !.next_use = @ + 1]>>

RECURSIVE ExprLabeler_walk_expr(_, _)
RECURSIVE ExprLabeler_walk_exprs(_, _)
RECURSIVE ExprLabeler_walk_children(_, _)
RECURSIVE ExprLabeler_walk_predicate(_, _)
RECURSIVE ExprLabeler_walk_predicates(_, _)

ExprLabeler_walk_expr(l, e) ==
    LET n == IF IsFrame(e) THEN next_lambda(l)
             ELSE IF IsLexical(e) THEN next_use(l)
             ELSE <<0, l>>
        labeled == IF IsFrame(e) \/ IsLexical(e) THEN [e EXCEPT !.id = n[1]] ELSE e
    IN ExprLabeler_walk_children(n[2], labeled)

\* `for elt in elts { walker.walk_expr(elt)?; }`
ExprLabeler_walk_exprs(l, es) ==
    IF es = <<>> THEN <<<<>>, l>>
    ELSE LET h == ExprLabeler_walk_expr(l, Head(es))
             t == ExprLabeler_walk_exprs(h[2], Tail(es))
         IN <<<<h[1]>> \o t[1], t[2]>>

\* walk_expr_body!, for the labeler.
ExprLabeler_walk_children(l, e) ==
    CASE e.type = "StreamLiteral" ->
            LET r == ExprLabeler_walk_exprs(l, e.elts)
            IN <<[e EXCEPT !.elts = r[1]], r[2]>>
      [] e.type = "PredicateOp" ->
            LET s == ExprLabeler_walk_expr(l, e.stream)
                p == ExprLabeler_walk_predicate(s[2], e.predicate)
            IN <<[e EXCEPT !.stream = s[1], !.predicate = p[1]], p[2]>>
      [] e.type = "App" ->
            LET a == ExprLabeler_walk_expr(l, e.arg)
                f == ExprLabeler_walk_expr(a[2], e.fun)
            IN <<[e EXCEPT !.arg = a[1], !.fun = f[1]], f[2]>>
      [] e.type = "Lambda" ->
            LET b == ExprLabeler_walk_expr(l, e.body)
            IN <<[e EXCEPT !.body = b[1]], b[2]>>
      [] OTHER -> <<e, l>>

ExprLabeler_walk_predicates(l, ps) ==
    IF ps = <<>> THEN <<<<>>, l>>
    ELSE LET h == ExprLabeler_walk_predicate(l, Head(ps))
             t == ExprLabeler_walk_predicates(h[2], Tail(ps))
         IN <<<<h[1]>> \o t[1], t[2]>>

\* walk_predicate_body!, for the labeler.
ExprLabeler_walk_predicate(l, p) ==
    CASE p.pred = "Expr" ->
            LET r == ExprLabeler_walk_expr(l, p.expr)
            IN <<[p EXCEPT !.expr = r[1]], r[2]>>
      [] p.pred \in UnaryPreds ->
            LET r == ExprLabeler_walk_predicate(l, p.sub)
            IN <<[p EXCEPT !.sub = r[1]], r[2]>>
      [] p.pred \in JunctionPreds ->
            LET r == ExprLabeler_walk_predicates(l, p.subs)
            IN <<[p EXCEPT !.subs = r[1]], r[2]>>
      [] OTHER -> <<p, l>>

(***************************************************************************)
(* CaptureMapBuilder (query/fun.rs): a Walker that resolves every variable *)
(* use and finds what each lambda captures.  The builder's `status` is     *)
(* Ok while the walk goes on, the StaticError a `?` is returning, or a     *)
(* panic; a walk of a builder that is not Ok leaves it as it is.           *)
(***************************************************************************)
VarAddr(lambda, index) == [lambda |-> lambda, index |-> index]
LambdaInfo(arity, parent, captured) ==
    [arity |-> arity, parent |-> parent, captured |-> captured]
UseInfo(lambda, referent) == [lambda |-> lambda, referent |-> referent]

StatusOk == [s |-> "ok"]
UnboundVar(name) == [s |-> "UnboundVar", name |-> name]
Panic == [s |-> "panic"]

CaptureMapBuilder_new ==
    [map |-> [lambdas |-> <<>>, uses |-> <<>>],
     scopes |-> <<>>,
     captured |-> {},
     status |-> StatusOk]

\* IdVec::push_at: None when the assertion fails.
push_at(vec, index, value) ==
    IF Len(vec) = index THEN Some(Append(vec, value)) ELSE None

\* `formals.iter().position(|s| s == name)`
position(formals, name) ==
    IF \E i \in 1..Len(formals) : formals[i] = name
    THEN Some((CHOOSE i \in 1..Len(formals) :
                  /\ formals[i] = name
                  /\ \A j \in 1..(i - 1) : formals[j] # name) - 1)
    ELSE None

\* The loop of find_var, over scopes[k], scopes[k-1], ...
RECURSIVE find_var_below(_, _, _)
find_var_below(scopes, k, name) ==
    IF k = 0 THEN None
    ELSE LET index == position(scopes[k].formals, name) IN
         IF IsSome(index) THEN Some(VarAddr(scopes[k].id, Unwrap(index)))
         ELSE find_var_below(scopes, k - 1, name)

\* A search of the scopes from the outermost inwards: an outer formal hides
\* an inner one of its name.
RECURSIVE find_var_outermost_from(_, _, _)
find_var_outermost_from(scopes, k, name) ==
    IF k > Len(scopes) THEN None
    ELSE LET index == position(scopes[k].formals, name) IN
         IF IsSome(index) THEN Some(VarAddr(scopes[k].id, Unwrap(index)))
         ELSE find_var_outermost_from(scopes, k + 1, name)

find_var_outermost(scopes, name) == find_var_outermost_from(scopes, 1, name)

\* CaptureMapBuilder::find_var: `for &(lambda_id, formals) in self.scopes.iter().rev()`
find_var(scopes, name) == find_var_below(scopes, Len(scopes), name)

\* A builder that records a use only when its variable is first seen in the
\* lambda.
record_use_once(b, id, info) ==
    IF info.referent \in b.captured THEN Some(b.map.uses)
    ELSE push_at(b.map.uses, id, info)

\* `self.map.uses.push_at(*id, UseInfo { lambda: enclosing, referent })`
record_use(b, id, info) == push_at(b.map.uses, id, info)

RECURSIVE CaptureMapBuilder_walk_expr(_, _)
RECURSIVE CaptureMapBuilder_walk_exprs(_, _)
RECURSIVE CaptureMapBuilder_walk_children(_, _)
RECURSIVE CaptureMapBuilder_walk_predicate(_, _)
RECURSIVE CaptureMapBuilder_walk_predicates(_, _)
RECURSIVE with_capture(_, _, _, _, _)

\* CaptureMapBuilder::with_capture; `body` is the closure's work: the walk
\* of the children of an expression, or of a predicate.
with_capture(b, id, formals, enclosing, body) ==
    LET pushed == push_at(b.map.lambdas, id, LambdaInfo(Len(formals), enclosing, {}))
    IN
    IF pushed = None THEN [b EXCEPT !.status = Panic]
    ELSE
    LET entered == [b EXCEPT !.map.lambdas = Unwrap(pushed),
                             !.captured = {},
                             !.scopes = Append(@, [id |-> id, formals |-> formals])]
        walked == IF body.walk = "children"
                  THEN CaptureMapBuilder_walk_children(entered, body.of)
                  ELSE CaptureMapBuilder_walk_predicate(entered, body.of)
        captured == { addr \in walked.captured : addr.lambda # id }
    IN
    IF walked.status # StatusOk THEN walked
    ELSE [walked EXCEPT !.scopes = SubSeq(@, 1, Len(@) - 1),
                        !.captured = b.captured \cup captured,
                        !.map.lambdas[id + 1].captured = captured]

CaptureMapBuilder_walk_expr(b, e) ==
    IF b.status # StatusOk THEN b
    ELSE
    LET enclosing == IF b.scopes = <<>> THEN None ELSE Some(b.scopes[Len(b.scopes)].id)
    IN
    CASE IsLexical(e) ->
            LET referent == find_var(b.scopes, e.name) IN
            IF IsSome(referent)
            THEN LET uses == record_use(b, e.id, UseInfo(enclosing, Unwrap(referent))) IN
                 IF uses = None THEN [b EXCEPT !.status = Panic]
                 ELSE [b EXCEPT !.map.uses = Unwrap(uses),
                                !.captured = @ \cup {Unwrap(referent)}]
            ELSE [b EXCEPT !.status = UnboundVar(e.name)]
      [] e.type = "Lambda" ->
            with_capture(b, e.id, e.formals, enclosing, [walk |-> "children", of |-> e])
      [] e.type = "PredicateOp" ->
            LET streamed == CaptureMapBuilder_walk_expr(b, e.stream) IN
            IF streamed.status # StatusOk THEN streamed
            ELSE with_capture(streamed, e.id, <<>>, enclosing,
                              [walk |-> "predicate", of |-> e.predicate])
      [] OTHER -> CaptureMapBuilder_walk_children(b, e)

CaptureMapBuilder_walk_exprs(b, es) ==
    IF es = <<>> THEN b
    ELSE CaptureMapBuilder_walk_exprs(CaptureMapBuilder_walk_expr(b, Head(es)), Tail(es))

\* walk_expr_body!, for the builder.
CaptureMapBuilder_walk_children(b, e) ==
    CASE e.type = "StreamLiteral" -> CaptureMapBuilder_walk_exprs(b, e.elts)
      [] e.type = "PredicateOp" ->
            CaptureMapBuilder_walk_predicate(
                CaptureMapBuilder_walk_expr(b, e.stream), e.predicate)
      [] e.type = "App" ->
            CaptureMapBuilder_walk_expr(CaptureMapBuilder_walk_expr(b, e.arg), e.fun)
      [] e.type = "Lambda" -> CaptureMapBuilder_walk_expr(b, e.body)
      [] OTHER -> b

CaptureMapBuilder_walk_predicates(b, ps) ==
    IF ps = <<>> THEN b
    ELSE CaptureMapBuilder_walk_predicates(
             CaptureMapBuilder_walk_predicate(b, Head(ps)), Tail(ps))

\* walk_predicate_body!, for the builder.
CaptureMapBuilder_walk_predicate(b, p) ==
    IF b.status # StatusOk THEN b
    ELSE CASE p.pred = "Expr" -> CaptureMapBuilder_walk_expr(b, p.expr)
           [] p.pred \in UnaryPreds -> CaptureMapBuilder_walk_predicate(b, p.sub)
           [] p.pred \in JunctionPreds -> CaptureMapBuilder_walk_predicates(b, p.subs)
           [] OTHER -> b

\* CaptureMapBuilder::build: the builder with its assertions checked.
build(b) ==
    IF b.scopes = <<>> /\ b.captured = {} THEN b ELSE [b EXCEPT !.status = Panic]

(***************************************************************************)
(* ClosureLayouts::from_capture_map (query/fun.rs).  None is a panic.      *)
(***************************************************************************)
VarLocation_Actual(i) == [loc |-> "Actual", i |-> i]
VarLocation_Captured(i) == [loc |-> "Captured", i |-> i]

\* The derived Ord of VarAddr: by lambda, then by index.
AddrLE(a, b) == a.lambda < b.lambda \/ (a.lambda = b.lambda /\ a.index <= b.index)

\* `captured.sort()`
RECURSIVE SortAddrs(_)
SortAddrs(S) ==
    IF S = {} THEN <<>>
    ELSE LET least == CHOOSE a \in S : \A b \in S : AddrLE(a, b)
         IN <<least>> \o SortAddrs(S \ {least})

\* A layout that numbers a captured variable after pushing its location.
captured_location_after_push(layout) == VarLocation_Captured(Len(layout.captured) + 1)

\* `VarLocation::Captured(layout.captured.len())`
captured_location(layout) == VarLocation_Captured(Len(layout.captured))

\* "Our formals are available directly from the Activation."
formal_locations(lambda, arity) ==
    [addr \in { VarAddr(lambda, index) : index \in 0..(arity - 1) } |->
        VarLocation_Actual(addr.index)]

\* `for addr in captured { ... }`
RECURSIVE lay_captured(_, _, _)
lay_captured(addrs, parent_locations, layout) ==
    IF addrs = <<>> THEN Some(layout)
    ELSE LET addr == Head(addrs) IN
         IF addr \notin DOMAIN parent_locations THEN None
         ELSE lay_captured(Tail(addrs), parent_locations,
                  [captured |-> Append(layout.captured, parent_locations[addr]),
                   locations |-> (addr :> captured_location(layout)) @@ layout.locations])

\* The first loop, over the lambdas from the k-th on; `done` are the layouts
\* already pushed.
RECURSIVE lay_lambdas(_, _, _)
lay_lambdas(infos, k, done) ==
    IF k > Len(infos) THEN Some(done)
    ELSE
    LET info == infos[k]
        formals == [captured |-> <<>>, locations |-> formal_locations(k - 1, info.arity)]
        layout ==
            IF IsSome(info.parent)
            THEN IF Unwrap(info.parent) + 1 > Len(done) THEN None
                 ELSE lay_captured(SortAddrs(info.captured),
                                   done[Unwrap(info.parent) + 1].locations, formals)
            ELSE IF info.captured = {} THEN Some(formals) ELSE None
    IN IF layout = None THEN None
       ELSE lay_lambdas(infos, k + 1, Append(done, Unwrap(layout)))

\* The second loop, over the uses from the k-th on.
RECURSIVE lay_uses(_, _, _, _)
lay_uses(uses, k, lambdas, done) ==
    IF k > Len(uses) THEN Some(done)
    ELSE
    LET use == uses[k] IN
    IF use.lambda = None THEN None
    ELSE LET l == Unwrap(use.lambda) + 1 IN
         IF l > Len(lambdas) THEN None
         ELSE IF use.referent \notin DOMAIN lambdas[l].locations THEN None
         ELSE lay_uses(uses, k + 1, lambdas,
                       Append(done, lambdas[l].locations[use.referent]))

from_capture_map(cm) ==
    LET lambdas == lay_lambdas(cm.lambdas, 1, <<>>) IN
    IF lambdas = None THEN None
    ELSE LET referents == lay_uses(cm.uses, 1, Unwrap(lambdas), <<>>) IN
         IF referents = None THEN None
         ELSE Some([lambdas |-> Unwrap(lambdas), referents |-> Unwrap(referents)])

\* StaticAnalysis::get_capture_list, CaptureList::from_layout
get_capture_list(analysis, id) == analysis.lambdas[id + 1].captured

(***************************************************************************)
(* The planner (query/run.rs, query/fun.rs).  A Plan or PredicatePlan is a *)
(* record; PlanPanic stands for a plan_* call that panicked                *)
(* (`unimplemented!`), which every caller passes on.                       *)
(***************************************************************************)
PlanPanic == [plan |-> "panic"]

\* The plan made of `parts` and other things, unless planning a part panicked.
Planned(parts, made) ==
    IF \E i \in 1..Len(parts) : parts[i] = PlanPanic THEN PlanPanic ELSE made

\* PlanOrTrivial
PotPlan(p) == [pot |-> "Plan", plan |-> p]
Trivial(k) == [pot |-> "Trivial", k |-> k]
PotPanic == [pot |-> "panic"]

\* PlanOrTrivial::map_plan, with `made` what the closure makes of the plan.
map_plan(pot, made) == IF pot.pot = "Plan" THEN PotPlan(made) ELSE pot

\* A consonant that is `true` for Or as it is for And.
CONSONANT_of_And(junction) == TRUE

\* BlahJunction::CONSONANT of And and Or.
CONSONANT(junction) == junction = "And"

\* plan_lexical: the use id is kept beside the location, for the history
\* variable `misread` alone.
plan_lexical(id, name, analysis) ==
    LET location == analysis.referents[id + 1] IN
    [plan |-> location.loc, i |-> location.i, use |-> id]

\* splice: `slice` with slice[i] replaced by the elements of v (i from 0).
splice(slice, i, v) ==
    IF Len(slice) = 1 THEN v
    ELSE SubSeq(slice, 1, i) \o v \o SubSeq(slice, i + 2, Len(slice))

RECURSIVE find_predicate_required_id(_)
RECURSIVE find_map_required_id(_, _)

\* The find_map of find_predicate_required_id, over predicates[i], ... (i from 1):
\* None, or Some of <<i - 1, id, child_remainder>>.
find_map_required_id(predicates, i) ==
    IF i > Len(predicates) THEN None
    ELSE LET found == find_predicate_required_id(predicates[i]) IN
         IF IsSome(found) THEN Some(<<i - 1, Unwrap(found)[1], Unwrap(found)[2]>>)
         ELSE find_map_required_id(predicates, i + 1)

\* None, or Some of <<the id expression, the remainder predicates>>.
find_predicate_required_id(predicate) ==
    CASE predicate.pred = "Field" /\ predicate.name = "id" ->
            IF predicate.sub.pred = "Expr"
            THEN Some(<<predicate.sub.expr, <<>>>>)
            ELSE None
      [] predicate.pred = "And" ->
            LET found == find_map_required_id(predicate.subs, 1) IN
            IF IsSome(found)
            THEN Some(<<Unwrap(found)[2],
                        splice(predicate.subs, Unwrap(found)[1], Unwrap(found)[3])>>)
            ELSE None
      [] OTHER -> None

RECURSIVE plan_expr(_, _)
RECURSIVE plan_exprs(_, _)
RECURSIVE plan_filter(_, _, _, _)
RECURSIVE plan_predicate(_, _)
RECURSIVE plan_junction(_, _, _)
RECURSIVE plan_junction_loop(_, _, _, _, _)

plan_exprs(es, analysis) == [i \in 1..Len(es) |-> plan_expr(es[i], analysis)]

plan_var(var, analysis) ==
    CASE var.var = "Root" -> [plan |-> "Root"]
      [] var.var = "Nodes" -> [plan |-> "Nodes"]
      [] var.var = "Map" -> [plan |-> "Map"]
      [] var.var = "Lexical" -> plan_lexical(var.id, var.name, analysis)
      [] OTHER -> PlanPanic

plan_lambda(id, formals, body, analysis) ==
    LET body_plan == plan_expr(body, analysis) IN
    Planned(<<body_plan>>,
            [plan |-> "Lambda",
             lambda |-> [id |-> id,
                         arity |-> Len(formals),
                         body |-> body_plan,
                         captured |-> get_capture_list(analysis, id)]])

\* plan_activation
plan_activation(arg, fun) == [plan |-> "Call", arg |-> arg, fun |-> fun]

plan_app(arg, fun, analysis) ==
    LET arg_plan == plan_expr(arg, analysis) IN
    IF arg_plan = PlanPanic THEN PlanPanic
    ELSE IF fun.type = "Var" /\ fun.var \in {"Edges", "First", "Paths"}
    THEN [plan |-> fun.var, arg |-> arg_plan]
    ELSE LET fun_plan == plan_expr(fun, analysis) IN
         Planned(<<fun_plan>>, plan_activation(arg_plan, fun_plan))

plan_stream(id, op, stream, predicate, analysis) ==
    IF op = "Filter" THEN plan_filter(id, stream, predicate, analysis) ELSE PlanPanic

plan_expr(e, analysis) ==
    CASE e.type = "Number" -> [plan |-> "Const", value |-> [t |-> "number", n |-> e.n]]
      [] e.type = "String" -> [plan |-> "Const", value |-> [t |-> "string", s |-> e.s]]
      [] e.type = "StreamLiteral" ->
            LET elts == plan_exprs(e.elts, analysis) IN
            Planned(elts, [plan |-> "StreamLiteral", elts |-> elts])
      [] e.type = "PredicateOp" -> plan_stream(e.id, e.op, e.stream, e.predicate, analysis)
      [] e.type = "Var" -> plan_var(e, analysis)
      [] e.type = "Lambda" -> plan_lambda(e.id, e.formals, e.body, analysis)
      [] e.type = "App" -> plan_app(e.arg, e.fun, analysis)

plan_filter(id, stream, predicate, analysis) ==
    LET hoisted == IF stream.type = "Var" /\ stream.var = "Nodes"
                   THEN find_predicate_required_id(predicate)
                   ELSE None
        stream_plan ==
            IF IsSome(hoisted)
            THEN LET id_plan == plan_expr(Unwrap(hoisted)[1], analysis) IN
                 Planned(<<id_plan>>, [plan |-> "NodesById", arg |-> id_plan])
            ELSE plan_expr(stream, analysis)
        predicate_plan ==
            IF IsSome(hoisted)
            THEN plan_junction("And", Unwrap(hoisted)[2], analysis)
            ELSE plan_predicate(predicate, analysis)
    IN
    IF stream_plan = PlanPanic \/ predicate_plan = PotPanic THEN PlanPanic
    ELSE IF predicate_plan = Trivial(TRUE) THEN stream_plan
    ELSE IF predicate_plan = Trivial(FALSE) THEN [plan |-> "StreamLiteral", elts |-> <<>>]
    ELSE [plan |-> "Filter",
          stream |-> stream_plan,
          capture_list |-> get_capture_list(analysis, id),
          filter |-> predicate_plan.plan]

plan_predicate(predicate, analysis) ==
    CASE predicate.pred = "Expr" ->
            LET p == plan_expr(predicate.expr, analysis) IN
            IF p = PlanPanic THEN PotPanic ELSE PotPlan([test |-> "Equal", plan |-> p])
      [] predicate.pred = "Field" ->
            LET sub == plan_predicate(predicate.sub, analysis) IN
            map_plan(sub, [test |-> "Field", field_name |-> predicate.name,
                           predicate |-> sub.plan])
      [] predicate.pred = "Ends" ->
            LET sub == plan_predicate(predicate.sub, analysis) IN
            map_plan(sub, [test |-> "Ends", sub |-> sub.plan])
      [] predicate.pred = "Any" ->
            LET sub == plan_predicate(predicate.sub, analysis) IN
            IF sub.pot = "Plan" THEN PotPlan([test |-> "Any", sub |-> sub.plan])
            ELSE IF sub = Trivial(FALSE) THEN Trivial(FALSE)
            ELSE IF sub = Trivial(TRUE) THEN PotPlan([test |-> "NonEmpty"])
            ELSE sub
      [] predicate.pred = "All" ->
            LET sub == plan_predicate(predicate.sub, analysis) IN
            IF sub.pot = "Plan" THEN PotPlan([test |-> "All", sub |-> sub.plan])
            ELSE IF sub = Trivial(TRUE) THEN Trivial(TRUE)
            ELSE IF sub = Trivial(FALSE) THEN PotPlan([test |-> "Empty"])
            ELSE sub
      [] predicate.pred = "Regex" ->
            PotPlan([test |-> "Regex", regex |-> predicate.regex])
      [] predicate.pred = "And" -> plan_junction("And", predicate.subs, analysis)
      [] predicate.pred = "Or" -> plan_junction("Or", predicate.subs, analysis)
      [] predicate.pred = "Not" ->
            LET sub == plan_predicate(predicate.sub, analysis) IN
            IF sub.pot = "Trivial" THEN Trivial(~sub.k)
            ELSE map_plan(sub, [test |-> "Not", sub |-> sub.plan])

\* The loop of plan_junction over subterms[i], ..., with the plans pushed so far.
plan_junction_loop(junction, subterms, analysis, i, plans) ==
    IF i > Len(subterms)
    THEN IF plans = <<>> THEN Trivial(CONSONANT(junction))
         ELSE PotPlan([test |-> junction, subs |-> plans])
    ELSE LET pot == plan_predicate(subterms[i], analysis) IN
         CASE pot.pot = "Plan" ->
                plan_junction_loop(junction, subterms, analysis, i + 1,
                                   Append(plans, pot.plan))
           [] pot.pot = "Trivial" ->
                IF pot.k = ~CONSONANT(junction) THEN Trivial(~CONSONANT(junction))
                ELSE plan_junction_loop(junction, subterms, analysis, i + 1, plans)
           [] OTHER -> pot

\* A junction planner that drops every trivial subterm, the dissonant too.
plan_junction_dropping(junction, subterms, analysis) ==
    LET pots == [i \in 1..Len(subterms) |-> plan_predicate(subterms[i], analysis)]
        IsPlan(pot) == pot.pot = "Plan"
        plans == SelectSeq(pots, IsPlan)
    IN IF \E i \in 1..Len(pots) : pots[i] = PotPanic THEN PotPanic
       ELSE IF plans = <<>> THEN Trivial(CONSONANT(junction))
       ELSE PotPlan([test |-> junction, subs |-> [i \in 1..Len(plans) |-> plans[i].plan]])

\* plan_junction::<J>
plan_junction(junction, subterms, analysis) ==
    plan_junction_loop(junction, subterms, analysis, 1, <<>>)

(***************************************************************************)
(* Values and errors (query/value.rs).  A Stream value is held as the      *)
(* results its iterator would return, in order: evaluation has no side     *)
(* effects, so each result is what drawing it would give.  An outcome is   *)
(* a Result, or a panic.                                                   *)
(***************************************************************************)
VNumber(n) == [t |-> "number", n |-> n]
VString(s) == [t |-> "string", s |-> s]
VEdge(edge) == [t |-> "edge", edge |-> edge]
VNode(id) == [t |-> "node", id |-> id]
VStream(items) == [t |-> "stream", items |-> items]
VFunction(f) == [t |-> "function", f |-> f]

\* Value::type_name, and TypeName::NAME of the type a value is unwrapped into.
type_name(v) == v.t

Ok(v) == [tag |-> "ok", v |-> v]
Err(e) == [tag |-> "err", e |-> e]
Panicked == [tag |-> "panic"]
\* In a checked run only: a variable load that did not read its variable.
Misread == [tag |-> "misread"]

IsOk(r) == r.tag = "ok"
\* A panic ends the program; an Err is a result like another.
Aborts(r) == r.tag \in {"panic", "misread"}

TypeError(wanted, actual) == [error |-> "Type", expected |-> wanted, actual |-> actual]
EmptyStream == [error |-> "EmptyStream"]
NoSuchField(value_type, field) ==
    [error |-> "NoSuchField", value_type |-> value_type, field |-> field]
NotAFunction == [error |-> "NotAFunction"]

\* TryUnwrap::try_unwrap into the type named `wanted`.
try_unwrap(v, wanted) ==
    IF v.t = wanted THEN Ok(v) ELSE Err(TypeError(wanted, type_name(v)))

\* impl PartialEq for Value
value_eq(left, right) ==
    CASE left.t = "number" /\ right.t = "number" -> left.n = right.n
      [] left.t = "string" /\ right.t = "string" -> left.s = right.s
      [] left.t = "edge" /\ right.t = "edge" -> left.edge = right.edge
      [] left.t = "node" /\ right.t = "node" -> left.id = right.id
      [] OTHER -> FALSE

\* CoreDump::get_root: the first node of the snapshot, which the model takes
\* to be the node of least id.
get_root == VNode(CHOOSE id \in DOMAIN dump : \A other \in DOMAIN dump : id <= other)

\* CoreDump::nodes, as results.
nodes_items == [i \in 1..Len(node_order) |-> Ok(VNode(node_order[i]))]

\* `option.map(Value::from)` for the numbers and the strings of a node or edge.
OptNumber(o) == IF IsSome(o) THEN Some(VNumber(Unwrap(o))) ELSE None
OptString(o) == IF IsSome(o) THEN Some(VString(Unwrap(o))) ELSE None

\* A field access that takes a field nodes do not have for an absent one.
get_node_field_or_absent(node, field) ==
    CASE field = "id" -> Ok(Some(VNumber(node.id)))
      [] field = "size" -> Ok(OptNumber(node_attrs[node.id].size))
      [] field = "coarseType" -> Ok(Some(VString(node_attrs[node.id].coarseType)))
      [] field = "typeName" -> Ok(OptString(node_attrs[node.id].typeName))
      [] field = "JSObjectClassName" -> Ok(OptString(node_attrs[node.id].JSObjectClassName))
      [] field = "scriptFilename" -> Ok(OptString(node_attrs[node.id].scriptFilename))
      [] field = "descriptiveTypeName" ->
            Ok(OptString(node_attrs[node.id].descriptiveTypeName))
      [] OTHER -> Ok(None)

get_node_field(node, field) ==
    CASE field = "id" -> Ok(Some(VNumber(node.id)))
      [] field = "size" -> Ok(OptNumber(node_attrs[node.id].size))
      [] field = "coarseType" -> Ok(Some(VString(node_attrs[node.id].coarseType)))
      [] field = "typeName" -> Ok(OptString(node_attrs[node.id].typeName))
      [] field = "JSObjectClassName" -> Ok(OptString(node_attrs[node.id].JSObjectClassName))
      [] field = "scriptFilename" -> Ok(OptString(node_attrs[node.id].scriptFilename))
      [] field = "descriptiveTypeName" ->
            Ok(OptString(node_attrs[node.id].descriptiveTypeName))
      [] OTHER -> Err(NoSuchField("nodes", field))

get_edge_field(edge, field) ==
    CASE field = "referent" -> Ok(OptNumber(edge.edge.referent))
      [] field = "name" -> Ok(OptString(edge.edge.name))
      [] OTHER -> Err(NoSuchField("edges", field))

(***************************************************************************)
(* Activations and functions (query/fun.rs, query/value.rs).  An           *)
(* activation and a closure also carry `env`, the value of every variable  *)
(* in scope by its VarAddr: the program never reads it.                    *)
(***************************************************************************)
Activation(captured, actuals, env) ==
    [captured |-> captured, actuals |-> actuals, env |-> env]

\* Activation::for_eval
for_eval == Activation(<<>>, <<>>, <<>>)

\* Activation::from_captured, in the scope of the activation `act`.
from_captured(captured, act) == Activation(captured, <<>>, act.env)

\* Activation::get: None when the index is out of bounds.
Activation_get(act, loc) ==
    LET slots == IF loc.loc = "Actual" THEN act.actuals ELSE act.captured IN
    IF loc.i < Len(slots) THEN Some(slots[loc.i + 1]) ELSE None

\* Activation::get_captured: None when a load panics.
get_captured(act, capture_list) ==
    IF \E k \in 1..Len(capture_list) : Activation_get(act, capture_list[k]) = None
    THEN None
    ELSE Some([k \in 1..Len(capture_list) |-> Unwrap(Activation_get(act, capture_list[k]))])

\* Captured::run and Actual::run.  A checked run compares the value loaded
\* with the value of the variable the use resolves to.
load(p, act, chk) ==
    LET got == Activation_get(act, [loc |-> p.plan, i |-> p.i])
        referent == Unwrap(capture_map).uses[p.use + 1].referent
    IN
    IF ~chk THEN (IF IsSome(got) THEN Ok(Unwrap(got)) ELSE Panicked)
    ELSE IF /\ IsSome(got)
            /\ referent \in DOMAIN act.env
            /\ act.env[referent] = Unwrap(got)
         THEN Ok(Unwrap(got))
         ELSE Misread

\* Callable::arity of a closure, of `map`, of a partial application.
arity(f) ==
    CASE f.c = "Closure" -> f.lambda.arity
      [] f.c = "Map" -> 2
      [] f.c = "PartialApp" -> f.arity

\* The scope of the body of a closure called with `actuals`.
CallEnv(f, actuals) ==
    [addr \in { VarAddr(f.lambda.id, i) : i \in 0..(Len(actuals) - 1) } |->
        actuals[addr.index + 1]] @@ f.env

(***************************************************************************)
(* The executor: Plan::run and PredicatePlan::test (query/run.rs,          *)
(* query/fun.rs), Function::call (query/value.rs).  `chk` makes a run a    *)
(* checked run, in which a variable load that does not read its variable   *)
(* ends the run as Misread; the program's run is the unchecked one.        *)
(***************************************************************************)
\* Some(the first result that ends the program), or None.
FirstAbort(items) ==
    IF \E i \in 1..Len(items) : Aborts(items[i])
    THEN Some(items[CHOOSE i \in 1..Len(items) :
                        Aborts(items[i]) /\ \A j \in 1..(i - 1) : ~Aborts(items[j])])
    ELSE None

\* Some(the first result that is not a value), or None.
FirstFailure(items) ==
    IF \E i \in 1..Len(items) : ~IsOk(items[i])
    THEN Some(items[CHOOSE i \in 1..Len(items) :
                        ~IsOk(items[i]) /\ \A j \in 1..(i - 1) : IsOk(items[j])])
    ELSE None

\* FallibleIterator::last
last_item(items) ==
    IF IsSome(FirstFailure(items)) THEN Unwrap(FirstFailure(items))
    ELSE IF items = <<>> THEN Ok(None)
    ELSE Ok(Some(items[Len(items)].v))

\* regex::Regex::is_match: a regex is held as the strings it matches.
is_match(regex, s) == s \in regex

\* The stream of one path (Paths::run): the start node, then every step's
\* edge and referent.
RECURSIVE path_steps(_)
path_steps(path) ==
    IF path = <<>> THEN <<>>
    ELSE <<Ok(VEdge(Head(path).edge)), Ok(VNode(Unwrap(Head(path).edge.referent)))>>
         \o path_steps(Tail(path))

path_stream(path) == VStream(<<Ok(VNode(path[1].origin))>> \o path_steps(path))

RECURSIVE paths_items(_, _)

\* A stream of paths that keeps the empty path of a start node, as the stream
\* of that node.
paths_items_with_empty(vis, fr) ==
    IF fr = <<>> THEN <<>>
    ELSE
    LET popped == pop_front(fr)
        id == popped[1]
        node == get_node(dump, id)
    IN
    IF node = None THEN <<Panicked>>
    ELSE
    LET scanned == ScanEdges(id, Unwrap(node).edges, 1, vis, popped[2])
        path == Unwrap(path_from_start(scanned[1], id))
        rest == paths_items(scanned[1], scanned[2])
    IN <<Ok(IF path = <<>> THEN VStream(<<Ok(VNode(id))>>) ELSE path_stream(path))>> \o rest

\* The results of the stream of paths: BreadthFirst::next until the front is
\* empty, without the empty paths.
paths_items(vis, fr) ==
    IF fr = <<>> THEN <<>>
    ELSE
    LET popped == pop_front(fr)
        id == popped[1]
        node == get_node(dump, id)
    IN
    IF node = None THEN <<Panicked>>
    ELSE
    LET scanned == ScanEdges(id, Unwrap(node).edges, 1, vis, popped[2])
        path == Unwrap(path_from_start(scanned[1], id))
        rest == paths_items(scanned[1], scanned[2])
    IN IF path = <<>> THEN rest ELSE <<Ok(path_stream(path))>> \o rest

\* The loop of Paths::run over a stream of start nodes: Ok of the ids, or the
\* result that ends the loop.
RECURSIVE start_nodes(_, _)
start_nodes(items, ids) ==
    IF items = <<>> THEN Ok(ids)
    ELSE IF ~IsOk(Head(items)) THEN Head(items)
    ELSE LET node == try_unwrap(Head(items).v, "node") IN
         IF ~IsOk(node) THEN node
         ELSE start_nodes(Tail(items), Append(ids, node.v.id))

RECURSIVE run(_, _, _)
RECURSIVE test(_, _, _, _)
RECURSIVE call(_, _, _)
RECURSIVE Call_run(_, _, _)
RECURSIVE call_exact_arity(_, _, _)
RECURSIVE filter_items(_, _, _, _)
RECURSIVE map_items(_, _, _)
RECURSIVE all_plans(_, _, _, _, _)
RECURSIVE any_plans(_, _, _, _, _)
RECURSIVE all_items(_, _, _, _)
RECURSIVE any_items(_, _, _, _)

\* FallibleIterator::filter with the closure of Filter::run.
filter_items(items, filter, act, chk) ==
    IF items = <<>> THEN <<>>
    ELSE
    LET item == Head(items) IN
    IF Aborts(item) THEN <<item>>
    ELSE IF ~IsOk(item) THEN <<item>> \o filter_items(Tail(items), filter, act, chk)
    ELSE LET t == test(filter, item.v, act, chk) IN
         IF Aborts(t) THEN <<t>>
         ELSE IF ~IsOk(t) THEN <<t>> \o filter_items(Tail(items), filter, act, chk)
         ELSE IF t.v THEN <<item>> \o filter_items(Tail(items), filter, act, chk)
         ELSE filter_items(Tail(items), filter, act, chk)

\* FallibleIterator::map with the closure of Map::call_exact_arity.
map_items(items, fun, chk) ==
    IF items = <<>> THEN <<>>
    ELSE
    LET item == Head(items) IN
    IF Aborts(item) THEN <<item>>
    ELSE IF ~IsOk(item) THEN <<item>> \o map_items(Tail(items), fun, chk)
    ELSE LET r == call(fun, <<item.v>>, chk) IN
         IF Aborts(r) THEN <<r>> ELSE <<r>> \o map_items(Tail(items), fun, chk)

run(p, act, chk) ==
    CASE p.plan = "Const" -> Ok(p.value)
      [] p.plan = "StreamLiteral" ->
            LET values == [i \in 1..Len(p.elts) |-> run(p.elts[i], act, chk)] IN
            IF IsSome(FirstAbort(values)) THEN Unwrap(FirstAbort(values))
            ELSE Ok(VStream(values))
      [] p.plan = "First" ->
            LET value == run(p.arg, act, chk) IN
            IF ~IsOk(value) THEN value
            ELSE LET stream == try_unwrap(value.v, "stream") IN
                 IF ~IsOk(stream) THEN stream
                 ELSE IF stream.v.items = <<>> THEN Err(EmptyStream)
                 ELSE stream.v.items[1]
      [] p.plan = "Root" -> Ok(get_root)
      [] p.plan = "Nodes" -> Ok(VStream(nodes_items))
      [] p.plan = "NodesById" ->
            LET value == run(p.arg, act, chk) IN
            IF ~IsOk(value) THEN value
            ELSE LET id == try_unwrap(value.v, "number") IN
                 IF ~IsOk(id) THEN id
                 ELSE Ok(VStream(IF IsSome(get_node(dump, id.v.n))
                                 THEN <<Ok(VNode(id.v.n))>>
                                 ELSE <<>>))
      [] p.plan = "Edges" ->
            LET value == run(p.arg, act, chk) IN
            IF ~IsOk(value) THEN value
            ELSE LET node == try_unwrap(value.v, "node") IN
                 IF ~IsOk(node) THEN node
                 ELSE Ok(VStream([k \in 1..Len(dump[node.v.id]) |->
                                     Ok(VEdge(dump[node.v.id][k]))]))
      [] p.plan = "Filter" ->
            LET value == run(p.stream, act, chk) IN
            IF ~IsOk(value) THEN value
            ELSE LET stream == try_unwrap(value.v, "stream")
                     captured == get_captured(act, p.capture_list)
                 IN
                 IF ~IsOk(stream) THEN stream
                 ELSE IF captured = None THEN Panicked
                 ELSE Ok(VStream(filter_items(stream.v.items, p.filter,
                                              from_captured(Unwrap(captured), act), chk)))
      [] p.plan = "Paths" ->
            LET value == run(p.arg, act, chk) IN
            IF ~IsOk(value) THEN value
            ELSE IF value.v.t = "node"
            THEN Ok(VStream(paths_items(value.v.id :> None, <<value.v.id>>)))
            ELSE IF value.v.t = "stream"
            THEN LET starts == start_nodes(value.v.items, <<>>) IN
                 IF ~IsOk(starts) THEN starts
                 ELSE Ok(VStream(paths_items(
                         [id \in { starts.v[i] : i \in 1..Len(starts.v) } |-> None],
                         starts.v)))
            ELSE Err(TypeError("node or stream of nodes", type_name(value.v)))
      [] p.plan = "Map" -> Ok(VFunction([c |-> "Map"]))
      [] p.plan \in {"Actual", "Captured"} -> load(p, act, chk)
      [] p.plan = "Lambda" ->
            LET captured == get_captured(act, p.lambda.captured) IN
            IF captured = None THEN Panicked
            ELSE Ok(VFunction([c |-> "Closure",
                               lambda |-> p.lambda,
                               captured |-> Unwrap(captured),
                               env |-> act.env]))
      [] p.plan = "Call" -> Call_run(p, act, chk)

\* A call that evaluates the function before the argument.
Call_run_function_first(p, act, chk) ==
    LET fun == run(p.fun, act, chk) IN
    IF ~IsOk(fun) THEN fun
    ELSE IF fun.v.t # "function" THEN Err(NotAFunction)
    ELSE LET arg == run(p.arg, act, chk) IN
         IF ~IsOk(arg) THEN arg
         ELSE call(fun.v.f, <<arg.v>>, chk)

\* Call::run
Call_run(p, act, chk) ==
    LET arg == run(p.arg, act, chk) IN
    IF ~IsOk(arg) THEN arg
    ELSE LET fun == run(p.fun, act, chk) IN
         IF ~IsOk(fun) THEN fun
         ELSE IF fun.v.t # "function" THEN Err(NotAFunction)
         ELSE call(fun.v.f, <<arg.v>>, chk)

\* A call that invokes the function with the leftmost actuals and passes the
\* rest to what it returns.
call_leftmost_first(f, actuals, chk) ==
    IF ~(arity(f) > 0) THEN Panicked
    ELSE IF Len(actuals) < arity(f)
    THEN Ok(VFunction([c |-> "PartialApp",
                       function |-> f,
                       arity |-> arity(f) - Len(actuals),
                       actuals |-> actuals]))
    ELSE
    LET unused == SubSeq(actuals, arity(f) + 1, Len(actuals))
        exact == SubSeq(actuals, 1, arity(f))
        value == call_exact_arity(f, exact, chk)
    IN
    IF ~IsOk(value) THEN value
    ELSE IF unused = <<>> THEN value
    ELSE IF value.v.t = "function" THEN call(value.v.f, unused, chk)
    ELSE Err(NotAFunction)

\* A call that gives a partial application the arity of the function it
\* waits to call.
call_keeping_arity(f, actuals, chk) ==
    IF ~(arity(f) > 0) THEN Panicked
    ELSE IF Len(actuals) < arity(f)
    THEN Ok(VFunction([c |-> "PartialApp",
                       function |-> f,
                       arity |-> arity(f),
                       actuals |-> actuals]))
    ELSE
    LET unused == SubSeq(actuals, 1, Len(actuals) - arity(f))
        exact == SubSeq(actuals, Len(actuals) - arity(f) + 1, Len(actuals))
        value == call_exact_arity(f, exact, chk)
    IN
    IF ~IsOk(value) THEN value
    ELSE IF unused = <<>> THEN value
    ELSE IF value.v.t = "function" THEN call(value.v.f, unused, chk)
    ELSE Err(NotAFunction)

\* Function::call
call(f, actuals, chk) ==
    IF ~(arity(f) > 0) THEN Panicked
    ELSE IF Len(actuals) < arity(f)
    THEN Ok(VFunction([c |-> "PartialApp",
                       function |-> f,
                       arity |-> arity(f) - Len(actuals),
                       actuals |-> actuals]))
    ELSE
    LET unused == SubSeq(actuals, 1, Len(actuals) - arity(f))
        exact == SubSeq(actuals, Len(actuals) - arity(f) + 1, Len(actuals))
        value == call_exact_arity(f, exact, chk)
    IN
    IF ~IsOk(value) THEN value
    ELSE IF unused = <<>> THEN value
    ELSE IF value.v.t = "function" THEN call(value.v.f, unused, chk)
    ELSE Err(NotAFunction)

\* A partial application that puts the actuals it retains before the ones it
\* is called with.
call_exact_arity_retained_first(f, actuals, chk) ==
    CASE f.c = "Closure" ->
            run(f.lambda.body, Activation(f.captured, actuals, CallEnv(f, actuals)), chk)
      [] f.c = "Map" ->
            IF Len(actuals) # arity(f) THEN Panicked
            ELSE LET stream == try_unwrap(actuals[1], "stream")
                     fun == try_unwrap(actuals[2], "function")
                 IN
                 IF ~IsOk(stream) THEN stream
                 ELSE IF ~IsOk(fun) THEN fun
                 ELSE Ok(VStream(map_items(stream.v.items, fun.v.f, chk)))
      [] f.c = "PartialApp" ->
            LET exact == f.actuals \o actuals IN
            IF Len(exact) # arity(f.function) THEN Panicked
            ELSE call_exact_arity(f.function, exact, chk)

\* Callable::call_exact_arity of Closure, Map and PartialApp.
call_exact_arity(f, actuals, chk) ==
    CASE f.c = "Closure" ->
            run(f.lambda.body, Activation(f.captured, actuals, CallEnv(f, actuals)), chk)
      [] f.c = "Map" ->
            IF Len(actuals) # arity(f) THEN Panicked
            ELSE LET stream == try_unwrap(actuals[1], "stream")
                     fun == try_unwrap(actuals[2], "function")
                 IN
                 IF ~IsOk(stream) THEN stream
                 ELSE IF ~IsOk(fun) THEN fun
                 ELSE Ok(VStream(map_items(stream.v.items, fun.v.f, chk)))
      [] f.c = "PartialApp" ->
            LET exact == actuals \o f.actuals IN
            IF Len(exact) # arity(f.function) THEN Panicked
            ELSE call_exact_arity(f.function, exact, chk)

\* A conjunction that leaves its first plan untested.
RECURSIVE all_plans_after_first(_, _, _, _, _)
all_plans_after_first(plans, i, value, act, chk) ==
    IF i > Len(plans) THEN Ok(TRUE)
    ELSE IF i = 1 THEN all_plans_after_first(plans, 2, value, act, chk)
    ELSE LET t == test(plans[i], value, act, chk) IN
         IF ~IsOk(t) THEN t
         ELSE IF ~t.v THEN Ok(FALSE)
         ELSE all_plans_after_first(plans, i + 1, value, act, chk)

\* And::test: `all` over the plans from the i-th on.
all_plans(plans, i, value, act, chk) ==
    IF i > Len(plans) THEN Ok(TRUE)
    ELSE LET t == test(plans[i], value, act, chk) IN
         IF ~IsOk(t) THEN t
         ELSE IF ~t.v THEN Ok(FALSE)
         ELSE all_plans(plans, i + 1, value, act, chk)

\* Or::test: `any` over the plans from the i-th on.
any_plans(plans, i, value, act, chk) ==
    IF i > Len(plans) THEN Ok(FALSE)
    ELSE LET t == test(plans[i], value, act, chk) IN
         IF ~IsOk(t) THEN t
         ELSE IF t.v THEN Ok(TRUE)
         ELSE any_plans(plans, i + 1, value, act, chk)

\* All::test: `all` over the results of a stream.
all_items(items, sub, act, chk) ==
    IF items = <<>> THEN Ok(TRUE)
    ELSE IF ~IsOk(Head(items)) THEN Head(items)
    ELSE LET t == test(sub, Head(items).v, act, chk) IN
         IF ~IsOk(t) THEN t
         ELSE IF ~t.v THEN Ok(FALSE)
         ELSE all_items(Tail(items), sub, act, chk)

\* Any::test: `any` over the results of a stream.
any_items(items, sub, act, chk) ==
    IF items = <<>> THEN Ok(FALSE)
    ELSE IF ~IsOk(Head(items)) THEN Head(items)
    ELSE LET t == test(sub, Head(items).v, act, chk) IN
         IF ~IsOk(t) THEN t
         ELSE IF t.v THEN Ok(TRUE)
         ELSE any_items(Tail(items), sub, act, chk)

test(pp, value, act, chk) ==
    CASE pp.test = "Equal" ->
            LET given == run(pp.plan, act, chk) IN
            IF ~IsOk(given) THEN given ELSE Ok(value_eq(value, given.v))
      [] pp.test = "Field" ->
            LET field == IF value.t = "node" THEN get_node_field(value, pp.field_name)
                         ELSE IF value.t = "edge" THEN get_edge_field(value, pp.field_name)
                         ELSE Err(TypeError("node or edge", type_name(value)))
            IN
            IF ~IsOk(field) THEN field
            ELSE IF field.v = None THEN Ok(FALSE)
            ELSE test(pp.predicate, Unwrap(field.v), act, chk)
      [] pp.test = "Ends" ->
            LET stream == try_unwrap(value, "stream") IN
            IF ~IsOk(stream) THEN stream
            ELSE LET l == last_item(stream.v.items) IN
                 IF ~IsOk(l) THEN l
                 ELSE IF l.v = None THEN Err(EmptyStream)
                 ELSE test(pp.sub, Unwrap(l.v), act, chk)
      [] pp.test = "Regex" ->
            LET string == try_unwrap(value, "string") IN
            IF ~IsOk(string) THEN string ELSE Ok(is_match(pp.regex, string.v.s))
      [] pp.test = "And" -> all_plans(pp.subs, 1, value, act, chk)
      [] pp.test = "Or" -> any_plans(pp.subs, 1, value, act, chk)
      [] pp.test = "Not" ->
            LET t == test(pp.sub, value, act, chk) IN
            IF ~IsOk(t) THEN t ELSE Ok(~t.v)
      [] pp.test = "Any" ->
            LET stream == try_unwrap(value, "stream") IN
            IF ~IsOk(stream) THEN stream
            ELSE any_items(stream.v.items, pp.sub, act, chk)
      [] pp.test = "All" ->
            LET stream == try_unwrap(value, "stream") IN
            IF ~IsOk(stream) THEN stream
            ELSE all_items(stream.v.items, pp.sub, act, chk)
      [] pp.test = "Empty" ->
            LET stream == try_unwrap(value, "stream") IN
            IF ~IsOk(stream) THEN stream
            ELSE IF stream.v.items = <<>> THEN Ok(TRUE)
            ELSE IF IsOk(stream.v.items[1]) THEN Ok(FALSE)
            ELSE stream.v.items[1]
      [] pp.test = "NonEmpty" ->
            LET stream == try_unwrap(value, "stream") IN
            IF ~IsOk(stream) THEN stream
            ELSE IF stream.v.items = <<>> THEN Ok(FALSE)
            ELSE IF IsOk(stream.v.items[1]) THEN Ok(TRUE)
            ELSE stream.v.items[1]

\* Callable::name
RECURSIVE name(_)
name(f) ==
    CASE f.c = "Closure" -> [anonymous |-> f.lambda.id]
      [] f.c = "Map" -> [builtin |-> "map"]
      [] f.c = "PartialApp" -> [partial_application_of |-> name(f.function)]

\* Value::write and write_stream: Ok of what is written, a function by its
\* name and a stream as the sequence of what is written of its values; or the
\* result that ends the writing.
RECURSIVE write(_)
RECURSIVE write_stream(_, _)
write_stream(items, written) ==
    IF items = <<>> THEN Ok(VStream(written))
    ELSE IF ~IsOk(Head(items)) THEN Head(items)
    ELSE LET w == write(Head(items).v) IN
         IF ~IsOk(w) THEN w ELSE write_stream(Tail(items), Append(written, w.v))

write(v) ==
    CASE v.t = "function" -> Ok(VFunction(name(v.f)))
      [] v.t = "stream" -> write_stream(v.items, <<>>)
      [] OTHER -> Ok(v)

\* Running a plan for a query and writing its value (Value::top_write).
top_write(value) == IF IsOk(value) THEN write(value.v) ELSE value
eval(p, chk) == top_write(run(p, for_eval, chk))

(***************************************************************************)
(* A query: StaticAnalysis::from_expr (query/fun.rs), then plan_expr and   *)
(* Plan::run (query/run.rs) and the writing of the value, each step an     *)
(* action.                                                                 *)
(***************************************************************************)

\* ExprLabeler::new().walk_expr(expr)
QueryLabel ==
    /\ q_pc = "parsed"
    /\ expr' = Some(ExprLabeler_walk_expr(ExprLabeler_new, Unwrap(expr))[1])
    /\ q_pc' = "labeled"
    /\ UNCHANGED <<capture_map, layouts, static_error, plan, result, misread>>
    /\ UNCHANGED <<snapshotVars, notQuery>>

\* `builder.walk_expr(expr)?; builder.build()`
QueryBuildCaptureMap ==
    /\ q_pc = "labeled"
    /\ LET walked == CaptureMapBuilder_walk_expr(CaptureMapBuilder_new, Unwrap(expr))
           built == IF walked.status = StatusOk THEN build(walked) ELSE walked
       IN CASE built.status = StatusOk ->
                  /\ capture_map' = Some(built.map)
                  /\ q_pc' = "mapped"
                  /\ UNCHANGED static_error
            [] built.status = Panic ->
                  /\ q_pc' = "panic"
                  /\ UNCHANGED <<capture_map, static_error>>
            [] OTHER ->
                  /\ static_error' = Some(built.status)
                  /\ q_pc' = "error"
                  /\ UNCHANGED capture_map
    /\ UNCHANGED <<expr, layouts, plan, result, misread>>
    /\ UNCHANGED <<snapshotVars, notQuery>>

\* ClosureLayouts::from_capture_map(map)
QueryLayOut ==
    /\ q_pc = "mapped"
    /\ LET laid == from_capture_map(Unwrap(capture_map)) IN
       IF laid = None
       THEN q_pc' = "panic" /\ UNCHANGED layouts
       ELSE q_pc' = "analyzed" /\ layouts' = laid
    /\ UNCHANGED <<expr, capture_map, static_error, plan, result, misread>>
    /\ UNCHANGED <<snapshotVars, notQuery>>

\* plan_expr(&expr, &analysis)
QueryPlan ==
    /\ q_pc = "analyzed"
    /\ LET planned == plan_expr(Unwrap(expr), Unwrap(layouts)) IN
       IF planned = PlanPanic
       THEN q_pc' = "panic" /\ UNCHANGED plan
       ELSE q_pc' = "planned" /\ plan' = Some(planned)
    /\ UNCHANGED <<expr, capture_map, layouts, static_error, result, misread>>
    /\ UNCHANGED <<snapshotVars, notQuery>>

\* `plan.run(&Activation::for_eval(), &dump)` and the writing of its value.
QueryRun ==
    /\ q_pc = "planned"
    /\ result' = Some(eval(Unwrap(plan), FALSE))
    /\ misread' = (eval(Unwrap(plan), TRUE) = Misread)
    /\ q_pc' = "done"
    /\ UNCHANGED <<expr, capture_map, layouts, static_error, plan>>
    /\ UNCHANGED <<snapshotVars, notQuery>>

NextQuery ==
    \/ QueryLabel
    \/ QueryBuildCaptureMap
    \/ QueryLayOut
    \/ QueryPlan
    \/ QueryRun

(***************************************************************************)
(* The queries and the snapshot they are run on.                           *)
(***************************************************************************)

\* A snapshot of two nodes: node 1, the root, has an edge `f` to node 2.
QueryDump == (1 :> <<[referent |-> Some(2), name |-> Some("f")]>>) @@ (2 :> <<>>)

QueryAttrs ==
    (1 :> [size |-> Some(1), coarseType |-> "Object", typeName |-> None,
           JSObjectClassName |-> Some("Array"), scriptFilename |-> None,
           descriptiveTypeName |-> None])
    @@ (2 :> [size |-> None, coarseType |-> "String", typeName |-> Some("JSString"),
              JSObjectClassName |-> None, scriptFilename |-> None,
              descriptiveTypeName |-> None])

\* The orders a HashMap of the two nodes can iterate in.
NodeOrders == { <<1, 2>>, <<2, 1>> }

\* The state after parsing a query, with the snapshot loaded; the query is
\* chosen by the specification.
QueryInit(orders) ==
    /\ dump = QueryDump
    /\ node_order \in orders
    /\ node_attrs = QueryAttrs
    /\ BFIdle
    /\ StreamIdle
    /\ DecoderIdle
    /\ CallIdle
    /\ q_pc = "parsed"
    /\ capture_map = None
    /\ layouts = None
    /\ static_error = None
    /\ plan = None
    /\ result = None
    /\ misread = FALSE

\* The numbers of nodes of the expressions analyzed, and of those run.
MaxExprSize == 5
MaxClosureSize == 6
\* The depth of the predicates filtered by.
MaxPredDepth == 2

\* The parser leaves every id zero, for the labeler to fill in.
Atoms == { Number(1), Lexical(0, "a"), Lexical(0, "b"), Var("Nodes") }

\* The predicates over an expression of E that the expressions generated use:
\* `{ e }` and `{ id: e }`.
PredsOver(E) ==
    { PredExpr(e) : e \in E } \cup { PredField("id", PredExpr(e)) : e \in E }

\* The expressions of exactly n nodes, over Atoms and lambdas of `formals`,
\* given the sequence `smaller` of the sets of those of 1, .., n - 1 nodes.
ExprsOfSize(formals, smaller, n) ==
    IF n = 1 THEN Atoms
    ELSE { Lambda(0, f, b) : f \in formals, b \in smaller[n - 1] }
         \cup { StreamLiteral(<<e>>) : e \in smaller[n - 1] }
         \cup UNION { { App(a, f) : a \in smaller[k], f \in smaller[n - 1 - k] } :
                      k \in 1..(n - 2) }
         \cup UNION { { PredicateOp(0, s, p) :
                           s \in smaller[k], p \in PredsOver(smaller[n - 1 - k]) } :
                      k \in 1..(n - 2) }

\* The sets of the expressions of 1, .., n nodes.
RECURSIVE ExprsBySize(_, _)
ExprsBySize(formals, n) ==
    IF n = 0 THEN <<>>
    ELSE LET smaller == ExprsBySize(formals, n - 1)
         IN Append(smaller, ExprsOfSize(formals, smaller, n))

\* The query parsed is an expression of exactly n nodes: an atom, or a lambda,
\* stream literal, application or filter of expressions of fewer nodes.
ParsedExpr(formals, n) ==
    LET smaller == ExprsBySize(formals, n - 1) IN
    \/ /\ n = 1
       /\ \E e \in Atoms : expr = Some(e)
    \/ /\ n > 1
       /\ \E f \in formals, b \in smaller[n - 1] : expr = Some(Lambda(0, f, b))
    \/ /\ n > 1
       /\ \E e \in smaller[n - 1] : expr = Some(StreamLiteral(<<e>>))
    \/ \E k \in 1..(n - 2) :
          \E a \in smaller[k], f \in smaller[n - 1 - k] : expr = Some(App(a, f))
    \/ \E k \in 1..(n - 2) :
          \E s \in smaller[k], p \in PredsOver(smaller[n - 1 - k]) :
              expr = Some(PredicateOp(0, s, p))

\* The names of the lexical uses in `e` that no enclosing lambda binds.
RECURSIVE UnboundNames(_, _)
UnboundNames(e, bound) ==
    IF "pred" \in DOMAIN e
    THEN CASE e.pred = "Expr" -> UnboundNames(e.expr, bound)
           [] e.pred \in UnaryPreds -> UnboundNames(e.sub, bound)
           [] e.pred \in JunctionPreds ->
                UNION { UnboundNames(e.subs[i], bound) : i \in 1..Len(e.subs) }
           [] OTHER -> {}
    ELSE CASE IsLexical(e) -> IF e.name \in bound THEN {} ELSE {e.name}
           [] e.type = "Lambda" ->
                UnboundNames(e.body, bound \cup { e.formals[i] : i \in 1..Len(e.formals) })
           [] e.type = "PredicateOp" ->
                UnboundNames(e.stream, bound) \cup UnboundNames(e.predicate, bound)
           [] e.type = "App" -> UnboundNames(e.arg, bound) \cup UnboundNames(e.fun, bound)
           [] e.type = "StreamLiteral" ->
                UNION { UnboundNames(e.elts[i], bound) : i \in 1..Len(e.elts) }
           [] OTHER -> {}

\* The closed expressions: every variable use is bound.
IsClosed(e) == UnboundNames(e, {}) = {}

\* The predicates of depth d at most, over constants.
RECURSIVE PredsOfDepth(_)
PredsOfDepth(d) ==
    IF d = 1
    THEN { PredExpr(Number(1)), PredExpr(String("f")),
           PredJunction("And", <<>>), PredJunction("Or", <<>>) }
    ELSE LET P == PredsOfDepth(d - 1) IN
         P \cup { PredField(f, p) : f \in {"id", "size", "name"}, p \in P }
           \cup { PredUnary(k, p) : k \in {"Ends", "Any", "All", "Not"}, p \in P }
           \cup { PredJunction(j, <<p>>) : j \in JunctionPreds, p \in P }
           \cup { PredJunction(j, <<p, q>>) : j \in JunctionPreds, p \in P, q \in P }

\* The streams filtered: `nodes`, `[1]`, `[[1]]`, `root edges`, and
\* `first []`, which fails.
FilterStreams ==
    { Var("Nodes"),
      StreamLiteral(<<Number(1)>>),
      StreamLiteral(<<StreamLiteral(<<Number(1)>>)>>),
      App(Var("Root"), Var("Edges")),
      App(StreamLiteral(<<>>), Var("First")) }

\* The filters of a stream by a predicate of depth d at most.
FilterExprs(d) ==
    { PredicateOp(0, s, p) : s \in FilterStreams, p \in PredsOfDepth(d) }

\* Any expression of MaxExprSize nodes at most, closed or not.
AnalysisInit ==
    /\ QueryInit({ <<1, 2>> })
    /\ \E n \in 1..MaxExprSize : ParsedExpr({ <<"a">>, <<"b">>, <<"a", "b">> }, n)

\* Any closed expression of MaxClosureSize nodes at most.
ClosureInit ==
    /\ QueryInit({ <<1, 2>> })
    /\ \E n \in 1..MaxClosureSize : ParsedExpr({ <<"a">>, <<"b">> }, n)
    /\ IsClosed(Unwrap(expr))

\* Any filter of FilterExprs, on the snapshot's nodes in any order.
FilterInit ==
    /\ QueryInit(NodeOrders)
    /\ \E query \in FilterExprs(MaxPredDepth) : expr = Some(query)

SpecAnalysis == AnalysisInit /\ [][NextQuery]_vars
SpecClosure == ClosureInit /\ [][NextQuery]_vars
SpecFilter == FilterInit /\ [][NextQuery]_vars

(***************************************************************************)
(* Properties of static analysis.                                          *)
(***************************************************************************)

\* The children of a node of the tree, an expression or a predicate, in the
\* order they are written.
Kids(n) ==
    IF "pred" \in DOMAIN n
    THEN CASE n.pred = "Expr" -> <<n.expr>>
           [] n.pred \in UnaryPreds -> <<n.sub>>
           [] n.pred \in JunctionPreds -> n.subs
           [] OTHER -> <<>>
    ELSE CASE n.type = "StreamLiteral" -> n.elts
           [] n.type = "PredicateOp" -> <<n.stream, n.predicate>>
           [] n.type = "App" -> <<n.arg, n.fun>>
           [] n.type = "Lambda" -> <<n.body>>
           [] OTHER -> <<>>

\* The nodes of the tree in pre-order: a node, then its children's subtrees.
RECURSIVE PreorderNodes(_)
RECURSIVE PreorderAll(_)
PreorderAll(ns) ==
    IF ns = <<>> THEN <<>> ELSE PreorderNodes(Head(ns)) \o PreorderAll(Tail(ns))
PreorderNodes(n) == <<n>> \o PreorderAll(Kids(n))

IsFrameNode(n) == "type" \in DOMAIN n /\ IsFrame(n)
IsUseNode(n) == "type" \in DOMAIN n /\ IsLexical(n)

\* The lambdas and predicate-ops of the tree, and its variable uses, in pre-order.
Frames(n) == SelectSeq(PreorderNodes(n), IsFrameNode)
Uses(n) == SelectSeq(PreorderNodes(n), IsUseNode)

Labeled == q_pc \notin {"idle", "parsed"}

\* C9: once the labeler has run, the lambdas and predicate-ops of the
\* expression are numbered 0, 1, 2, ... in pre-order, and so are its variable
\* uses: the ids are distinct and dense from zero, and the id of a lambda or
\* predicate-op is less than the id of each one nested inside it.
C9_LabelsArePreorderAndDense ==
    Labeled =>
        LET frames == Frames(Unwrap(expr))
            uses == Uses(Unwrap(expr))
        IN /\ \A i \in 1..Len(frames) : frames[i].id = i - 1
           /\ \A i \in 1..Len(uses) : uses[i].id = i - 1
           /\ \A i \in 1..Len(frames) :
                 LET inside == PreorderAll(Kids(frames[i])) IN
                 \A j \in 1..Len(inside) :
                     IsFrameNode(inside[j]) => frames[i].id < inside[j].id

\* A labeled expression with a lambda or predicate-op nested in another, a
\* third one beside them, and two variable uses.
C9_Witness ==
    /\ Labeled
    /\ LET frames == Frames(Unwrap(expr)) IN
       /\ Len(frames) >= 3
       /\ \E i \in 1..Len(frames) : Len(Frames(frames[i])) = 2
       /\ Len(Uses(Unwrap(expr))) >= 2

\* The variable uses in the tree n, each as <<its id, the ids of the lambdas
\* and predicate-ops whose scope encloses it>>; `scope` encloses n.  The scope
\* of a lambda is its body, the scope of a predicate-op is its predicate.
RECURSIVE UsesInScope(_, _)
UsesInScope(n, scope) ==
    IF "pred" \in DOMAIN n
    THEN UNION { UsesInScope(Kids(n)[i], scope) : i \in 1..Len(Kids(n)) }
    ELSE CASE IsLexical(n) -> { <<n.id, scope>> }
           [] n.type = "Lambda" -> UsesInScope(n.body, scope \cup {n.id})
           [] n.type = "PredicateOp" ->
                UsesInScope(n.stream, scope)
                \cup UsesInScope(n.predicate, scope \cup {n.id})
           [] OTHER -> UNION { UsesInScope(Kids(n)[i], scope) : i \in 1..Len(Kids(n)) }

Analyzed == IsSome(layouts)

\* C7: after a successful static analysis, the capture map holds exactly one
\* resolved address for each use-id of the expression, and the lambda of that
\* address is a lambda or predicate-op whose scope encloses the use.
C7_UsesResolveToEnclosingLambdas ==
    Analyzed =>
        LET scoped == UsesInScope(Unwrap(expr), {})
            resolved == Unwrap(capture_map).uses
        IN /\ Len(resolved) = Len(Uses(Unwrap(expr)))
           /\ \A use \in scoped :
                 /\ use[1] + 1 \in DOMAIN resolved
                 /\ resolved[use[1] + 1].referent.lambda \in use[2]

\* An analyzed expression in which two uses resolve to one variable, and a use
\* resolves to a variable of a lambda that is not the innermost around it.
C7_Witness ==
    /\ Analyzed
    /\ LET resolved == Unwrap(capture_map).uses IN
       /\ \E i, j \in DOMAIN resolved : i # j /\ resolved[i].referent = resolved[j].referent
       /\ \E i \in DOMAIN resolved : resolved[i].lambda # Some(resolved[i].referent.lambda)

C10_UnboundVariableIsAStaticError ==
    (q_pc \notin {"idle", "parsed", "labeled"} /\ UnboundNames(Unwrap(expr), {}) # {}) =>
        /\ q_pc = "error"
        /\ \E unbound \in UnboundNames(Unwrap(expr), {}) :
              static_error = Some(UnboundVar(unbound))
        /\ plan = None
        /\ result = None

\* The lambdas and predicate-ops of `chain`, outermost first, that declare a
\* formal called `var`.
Declarers(chain, var) ==
    { k \in 1..Len(chain) : \E i \in 1..Len(chain[k].formals) : chain[k].formals[i] = var }

\* The variable that `var` stands for inside the scopes of `chain`: the
\* formal of that name of the innermost lambda declaring one.
Innermost(chain, var) ==
    LET declarers == Declarers(chain, var)
        k == CHOOSE d \in declarers : \A other \in declarers : other <= d
    IN VarAddr(chain[k].id,
               (CHOOSE i \in 1..Len(chain[k].formals) : chain[k].formals[i] = var) - 1)

\* A lambda's or predicate-op's entry in a chain of scopes.
ScopeOf(n) == [id |-> n.id, formals |-> IF n.type = "Lambda" THEN n.formals ELSE <<>>]
\* What the scope of a lambda or predicate-op covers: the body, the predicate.
ScopeBody(n) == IF n.type = "Lambda" THEN n.body ELSE n.predicate

\* The variable uses in the tree n, each with the variable its name stands
\* for and the chain of scopes around it; `chain` are the scopes around n.
RECURSIVE UsesOfVariables(_, _)
UsesOfVariables(n, chain) ==
    IF "pred" \in DOMAIN n
    THEN UNION { UsesOfVariables(Kids(n)[i], chain) : i \in 1..Len(Kids(n)) }
    ELSE CASE IsLexical(n) ->
                { [id |-> n.id, name |-> n.name, chain |-> chain,
                   addr |-> Innermost(chain, n.name)] }
           [] n.type = "Lambda" -> UsesOfVariables(n.body, Append(chain, ScopeOf(n)))
           [] n.type = "PredicateOp" ->
                UsesOfVariables(n.stream, chain)
                \cup UsesOfVariables(n.predicate, Append(chain, ScopeOf(n)))
           [] OTHER -> UNION { UsesOfVariables(Kids(n)[i], chain) : i \in 1..Len(Kids(n)) }

\* The lambdas and predicate-ops in the tree n, each with the chain of scopes
\* around it.
RECURSIVE ScopedFrames(_, _)
ScopedFrames(n, chain) ==
    IF "pred" \in DOMAIN n
    THEN UNION { ScopedFrames(Kids(n)[i], chain) : i \in 1..Len(Kids(n)) }
    ELSE CASE n.type = "Lambda" ->
                { [frame |-> n, chain |-> chain] }
                \cup ScopedFrames(n.body, Append(chain, ScopeOf(n)))
           [] n.type = "PredicateOp" ->
                { [frame |-> n, chain |-> chain] }
                \cup ScopedFrames(n.stream, chain)
                \cup ScopedFrames(n.predicate, Append(chain, ScopeOf(n)))
           [] OTHER -> UNION { ScopedFrames(Kids(n)[i], chain) : i \in 1..Len(Kids(n)) }

Mapped == IsSome(capture_map)

\* C11: in the capture map built for an expression, every variable use
\* resolves to the formal of its name of the innermost enclosing lambda that
\* declares one; and the capture set of each lambda or predicate-op is exactly
\* the set of the variables used in its scope, nested lambdas included, that
\* a strictly enclosing lambda defines: it holds none of the lambda's own
\* formals, and it is empty for a lambda that nothing encloses.
C11_CapturedAreTheFreeVariables ==
    Mapped =>
        LET map == Unwrap(capture_map) IN
        /\ \A use \in UsesOfVariables(Unwrap(expr), <<>>) :
              map.uses[use.id + 1].referent = use.addr
        /\ \A scoped \in ScopedFrames(Unwrap(expr), <<>>) :
              LET id == scoped.frame.id
                  used == { use.addr : use \in UsesOfVariables(ScopeBody(scoped.frame),
                                                  Append(scoped.chain, ScopeOf(scoped.frame))) }
                  enclosing == { scoped.chain[k].id : k \in 1..Len(scoped.chain) }
                  captured == map.lambdas[id + 1].captured
              IN /\ captured = { addr \in used : addr.lambda \in enclosing }
                 /\ \A addr \in captured : addr.lambda # id
                 /\ scoped.chain = <<>> => captured = {}

\* A capture map of an expression in which a use stands for the inner of two
\* formals of its name, and a lambda captures a variable that is used only
\* inside a lambda nested in it.
C11_Witness ==
    /\ Mapped
    /\ \E use \in UsesOfVariables(Unwrap(expr), <<>>) :
          Cardinality(Declarers(use.chain, use.name)) >= 2
    /\ LET map == Unwrap(capture_map) IN
       \E k \in DOMAIN map.lambdas : \E addr \in map.lambdas[k].captured :
           \A u \in DOMAIN map.uses :
               map.uses[u].referent = addr => map.uses[u].lambda # Some(k - 1)

(***************************************************************************)
(* Properties of planning and execution.                                   *)
(***************************************************************************)

\* C2: in the run of an analyzed and planned expression, every variable load
\* executed yields the value of the variable its use resolves to, as bound in
\* the scope the enclosing closure or filter was created in.
C2_LoadsYieldTheirVariable ==
    q_pc = "done" => ~misread

\* The predicate plan that tests a predicate as it is written: a test for
\* every term, nothing folded away.
RECURSIVE NaivePredicate(_, _)
NaivePredicate(p, analysis) ==
    CASE p.pred = "Expr" -> [test |-> "Equal", plan |-> plan_expr(p.expr, analysis)]
      [] p.pred = "Field" ->
            [test |-> "Field", field_name |-> p.name,
             predicate |-> NaivePredicate(p.sub, analysis)]
      [] p.pred \in {"Ends", "Any", "All", "Not"} ->
            [test |-> p.pred, sub |-> NaivePredicate(p.sub, analysis)]
      [] p.pred \in JunctionPreds ->
            [test |-> p.pred,
             subs |-> [i \in 1..Len(p.subs) |-> NaivePredicate(p.subs[i], analysis)]]
      [] p.pred = "Regex" -> [test |-> "Regex", regex |-> p.regex]

\* The filter of the stream of `e` by the naive test of its predicate: the
\* stream is the one written, nothing is hoisted out of the predicate.
NaiveFilter(e, analysis) ==
    [plan |-> "Filter",
     stream |-> plan_expr(e.stream, analysis),
     capture_list |-> get_capture_list(analysis, e.id),
     filter |-> NaivePredicate(e.predicate, analysis)]

\* C1: the outcome of running the plan of a filter, the values in order or the
\* error, is the outcome of evaluating the stream and keeping the elements that
\* the predicate, tested as written, holds of.
C1_PlannedFilterIsTheNaiveFilter ==
    (q_pc = "done" /\ Unwrap(expr).type = "PredicateOp") =>
        Unwrap(result) = eval(NaiveFilter(Unwrap(expr), Unwrap(layouts)), FALSE)

(***************************************************************************)
(* The snapshot decoder (dump/mod.rs).  CoreDump::new has read the         *)
(* metadata message; the node messages that follow are read one at a time, *)
(* until the end of the buffer.  The offset of a message is its position   *)
(* among the node messages: 1 is the offset at which the metadata ends.    *)
(* The bytes of a string stand for themselves; the alignment and the       *)
(* length of the bytes of a two-byte string are left out.                  *)
(***************************************************************************)

\* The number of node messages of a snapshot, and the number of string
\* fields its messages carry in all.
MaxMessages == 2
MaxFields == 3

\* A oneof string field of a message (OneOf...OrRef): absent, the bytes of a
\* string, or a back-reference.
Absent == [oneof |-> "None"]
GivenBytes(b) == [oneof |-> "Given", bytes |-> b]
BackRef(index) == [oneof |-> "Ref", index |-> index]

\* Deduplicated::Given, Deduplicated::Ref
Given(string) == [d |-> "Given", string |-> string]
Ref(index) == [d |-> "Ref", index |-> index]

\* A panic of the decoder, and what panicked.
DecoderPanic(what) == [tag |-> "panic", what |-> what]

\* FromDumpBytes::from_dump_bytes, for OneByteString (width 1) and
\* TwoByteString (width 2).
from_dump_bytes(width, b) == [width |-> width, text |-> b]

\* DeduplicatedString::get_bytes, get_deduplicated: an Option.
get_deduplicated(dedup, width) ==
    CASE dedup.oneof = "Given" -> Some(Given(from_dump_bytes(width, dedup.bytes)))
      [] dedup.oneof = "Ref" -> Some(Ref(dedup.index))
      [] OTHER -> None

\* impl_StringTable!: the table of the strings of a width.
intern_string(cd, width, string) ==
    IF width = 1 THEN [cd EXCEPT !.one_byte_strings = Append(@, string)]
    ELSE [cd EXCEPT !.two_byte_strings = Append(@, string)]

\* A table indexed from one: index i yields the string before the one meant.
lookup_one_based(cd, width, i) ==
    LET table == IF width = 1 THEN cd.one_byte_strings ELSE cd.two_byte_strings IN
    IF i >= 1 /\ i <= Len(table) THEN Ok(table[i]) ELSE DecoderPanic("index out of bounds")

\* `self.$table[i]`: indexing past the end panics.
lookup(cd, width, i) ==
    LET table == IF width = 1 THEN cd.one_byte_strings ELSE cd.two_byte_strings IN
    IF i < Len(table) THEN Ok(table[i + 1]) ELSE DecoderPanic("index out of bounds")

\* StringTable::intern
intern(cd, dedup, width) ==
    LET d == get_deduplicated(dedup, width) IN
    IF IsSome(d) /\ Unwrap(d).d = "Given"
    THEN intern_string(cd, width, Unwrap(d).string)
    ELSE cd

\* StringTable::get_string: Ok of an Option, or the panic of lookup.
get_string(cd, dedup, width) ==
    LET d == get_deduplicated(dedup, width) IN
    IF d = None THEN Ok(None)
    ELSE IF Unwrap(d).d = "Given" THEN Ok(Some(Unwrap(d).string))
    ELSE LET found == lookup(cd, width, Unwrap(d).index) IN
         IF found.tag = "ok" THEN Ok(Some(found.v)) ELSE found

\* CoreDump::scan_frame: the loop over the chain of parents.
RECURSIVE scan_frame(_, _, _)
scan_frame(cd, frame, offset) ==
    IF frame = None THEN cd
    ELSE LET data == Unwrap(frame)
             inserted == IF IsSome(data.id)
                         THEN [cd EXCEPT !.frame_offsets = (Unwrap(data.id) :> offset) @@ @]
                         ELSE cd
             sourced == intern(inserted, data.SourceOrRef, 2)
             named == intern(sourced, data.FunctionDisplayNameOrRef, 2)
         IN scan_frame(named, data.parent, offset)

\* `for edge in &node.edges { self.intern(&edge.EdgeNameOrRef); }`
RECURSIVE scan_edges(_, _)
scan_edges(cd, edges) ==
    IF edges = <<>> THEN cd
    ELSE scan_edges(intern(cd, Head(edges).EdgeNameOrRef, 2), Tail(edges))

\* CoreDump::scan_node; a HashMap insert replaces the entry of the key.
scan_node(cd, node, offset) ==
    LET inserted == IF IsSome(node.id)
                    THEN [cd EXCEPT !.node_offsets = (Unwrap(node.id) :> offset) @@ @]
                    ELSE cd
        typed == intern(inserted, node.TypeNameOrRef, 2)
        edged == scan_edges(typed, node.edges)
        framed == scan_frame(edged, node.allocationStack, offset)
        classed == intern(framed, node.JSObjectClassNameOrRef, 1)
        filed == intern(classed, node.ScriptFilenameOrRef, 1)
    IN intern(filed, node.descriptiveTypeNameOrRef, 2)

\* From<u32> for CoarseType
CoarseType_from(n) ==
    CASE n = 0 -> Ok("Other")
      [] n = 1 -> Ok("Object")
      [] n = 2 -> Ok("Script")
      [] n = 3 -> Ok("String")
      [] n = 4 -> Ok("DOMNode")
      [] OTHER -> DecoderPanic("bad coarse type value")

\* Edge::from_protobuf
Edge_from_protobuf(pe, cd) ==
    LET named == get_string(cd, pe.EdgeNameOrRef, 2) IN
    IF named.tag = "ok" THEN Ok([referent |-> pe.referent, name |-> named.v]) ELSE named

\* The first panic among the outcomes, if any.
FirstPanic(outcomes) ==
    IF \E i \in 1..Len(outcomes) : outcomes[i].tag = "panic"
    THEN Some(outcomes[CHOOSE i \in 1..Len(outcomes) :
                          /\ outcomes[i].tag = "panic"
                          /\ \A j \in 1..(i - 1) : outcomes[j].tag = "ok"])
    ELSE None

\* Node::from_protobuf: the fields are built in the order they are written.
Node_from_protobuf(proto, cd) ==
    IF proto.id = None THEN DecoderPanic("unwrap of None")
    ELSE
    LET edges == [k \in 1..Len(proto.edges) |-> Edge_from_protobuf(proto.edges[k], cd)]
        coarseType == CoarseType_from(proto.coarseType)
        typeName == get_string(cd, proto.TypeNameOrRef, 2)
        JSObjectClassName == get_string(cd, proto.JSObjectClassNameOrRef, 1)
        scriptFilename == get_string(cd, proto.ScriptFilenameOrRef, 1)
        descriptiveTypeName == get_string(cd, proto.descriptiveTypeNameOrRef, 2)
        panic == FirstPanic(edges \o <<coarseType, typeName, JSObjectClassName,
                                       scriptFilename, descriptiveTypeName>>)
    IN IF IsSome(panic) THEN Unwrap(panic)
       ELSE Ok([id |-> Unwrap(proto.id),
                size |-> proto.size,
                edges |-> [k \in 1..Len(edges) |-> edges[k].v],
                coarseType |-> coarseType.v,
                typeName |-> typeName.v,
                JSObjectClassName |-> JSObjectClassName.v,
                scriptFilename |-> scriptFilename.v,
                descriptiveTypeName |-> descriptiveTypeName.v])

\* CoreDump::get_node_at_trusted_offset: reading a message where the buffer
\* ends fails, and the `expect` panics.
get_node_at_trusted_offset(cd, stream, offset) ==
    IF offset > Len(stream) THEN DecoderPanic("failed to read node at trusted offset")
    ELSE Node_from_protobuf(stream[offset], cd)

CoreDump_get_root(cd, stream) == get_node_at_trusted_offset(cd, stream, cd.root_offset)

\* CoreDump::get_node: Ok of an Option, or a panic.
CoreDump_get_node(cd, stream, id) ==
    IF id \in DOMAIN cd.node_offsets
    THEN LET node == get_node_at_trusted_offset(cd, stream, cd.node_offsets[id]) IN
         IF node.tag = "ok" THEN Ok(Some(node.v)) ELSE node
    ELSE Ok(None)

\* The ids the node messages carry, and an id none carries.
MessageIds == {1, 2}
NoMessageId == Cardinality(MessageIds) + 1

\* A StackFrame.Data message, and the allocation stacks of the message at
\* offset m: none, or a frame without strings whose parent gives its source.
StackFrame(id, source, parent) ==
    [id |-> id, SourceOrRef |-> source, FunctionDisplayNameOrRef |-> Absent,
     parent |-> parent]

AllocationStacks(m) ==
    { None,
      Some(StackFrame(None, Absent,
                      Some(StackFrame(Some(1), GivenBytes(<<m, "source">>), None)))) }

\* The string fields of the message at offset m: the bytes a message gives
\* tell where it gives them, so that no two strings given are equal.
StringFields(m, field, indices) ==
    { Absent, GivenBytes(<<m, field>>) } \cup { BackRef(i) : i \in indices }

\* The node messages that can stand at offset m, after messages of the ids
\* `seen`.  The ids are only ever compared: they are named in the order that
\* the stream first carries them.
ProtoNodes(m, seen) ==
    [id : {None} \cup { Some(i) : i \in { j \in MessageIds : j <= Cardinality(seen) + 1 } },
     size : {None},
     coarseType : {1},
     TypeNameOrRef : StringFields(m, "typeName", {0, 1}),
     edges : {<<>>} \cup { <<[referent |-> None, EdgeNameOrRef |-> named]>> :
                              named \in StringFields(m, "name", {0}) \ {Absent} },
     allocationStack : AllocationStacks(m),
     JSObjectClassNameOrRef : StringFields(m, "jsObjectClassName", {0}),
     ScriptFilenameOrRef : {Absent},
     descriptiveTypeNameOrRef : StringFields(m, "descriptiveTypeName", {})]

\* The string fields of a chain of stack frames, innermost first, each as
\* <<the width of its strings, the field>>.
RECURSIVE FrameFields(_)
FrameFields(frame) ==
    IF frame = None THEN <<>>
    ELSE <<<<2, Unwrap(frame).SourceOrRef>>, <<2, Unwrap(frame).FunctionDisplayNameOrRef>>>>
         \o FrameFields(Unwrap(frame).parent)

\* The string fields of a node message in the order of CoreDump.proto's field
\* numbers, each as <<the width of its strings, the field>>.
NodeFields(node) ==
    <<<<2, node.TypeNameOrRef>>>>
    \o [k \in 1..Len(node.edges) |-> <<2, node.edges[k].EdgeNameOrRef>>]
    \o FrameFields(node.allocationStack)
    \o <<<<1, node.JSObjectClassNameOrRef>>, <<1, node.ScriptFilenameOrRef>>,
         <<2, node.descriptiveTypeNameOrRef>>>>

\* The string fields of the messages of a stream, in the order of the stream.
RECURSIVE StreamFields(_)
StreamFields(stream) ==
    IF stream = <<>> THEN <<>>
    ELSE StreamFields(SubSeq(stream, 1, Len(stream) - 1)) \o NodeFields(stream[Len(stream)])

IsPresent(field) == field[2] # Absent

\* CoreDump::new, up to the loop.
DecoderInit ==
    /\ bytes = <<>>
    /\ core_dump = [root_offset |-> 1,
                    one_byte_strings |-> <<>>,
                    two_byte_strings |-> <<>>,
                    node_offsets |-> <<>>,
                    frame_offsets |-> <<>>]
    /\ cd_pc = "scanning"
    /\ fetched = None
    /\ dump = <<>>
    /\ node_order = <<>>
    /\ node_attrs = <<>>
    /\ BFIdle
    /\ StreamIdle
    /\ CallIdle
    /\ QueryIdle

\* An iteration of the loop of CoreDump::new: read a node message, scan it.
CoreDumpScan ==
    /\ cd_pc = "scanning"
    /\ Len(bytes) < MaxMessages
    /\ \E node \in ProtoNodes(Len(bytes) + 1, DOMAIN core_dump.node_offsets) :
          /\ Len(SelectSeq(StreamFields(bytes), IsPresent))
                + Len(SelectSeq(NodeFields(node), IsPresent)) <= MaxFields
          /\ bytes' = Append(bytes, node)
          /\ core_dump' = scan_node(core_dump, node, Len(bytes) + 1)
    /\ UNCHANGED <<cd_pc, fetched, notDecoder>>

\* `reader.is_eof()`: CoreDump::new returns the dump.
CoreDumpEof ==
    /\ cd_pc = "scanning"
    /\ cd_pc' = "ready"
    /\ UNCHANGED <<bytes, core_dump, fetched, notDecoder>>

\* CoreDump::get_root
CoreDumpGetRoot ==
    /\ cd_pc = "ready"
    /\ fetched' = Some([call |-> "get_root",
                        outcome |-> CoreDump_get_root(core_dump, bytes)])
    /\ UNCHANGED <<bytes, core_dump, cd_pc, notDecoder>>

\* CoreDump::get_node
CoreDumpGetNode ==
    /\ cd_pc = "ready"
    /\ \E id \in MessageIds \cup {NoMessageId} :
          fetched' = Some([call |-> "get_node", id |-> id,
                           outcome |-> CoreDump_get_node(core_dump, bytes, id)])
    /\ UNCHANGED <<bytes, core_dump, cd_pc, notDecoder>>

NextDecoder ==
    \/ CoreDumpScan
    \/ CoreDumpEof
    \/ CoreDumpGetRoot
    \/ CoreDumpGetNode

SpecDecoder == DecoderInit /\ [][NextDecoder]_vars

(***************************************************************************)
(* Properties of the snapshot decoder.                                     *)
(***************************************************************************)

\* C12: in a constructed snapshot, get_root succeeds, and the node it returns
\* is the node get_node returns for the id of the root message, the first
\* node message after the metadata.
C12_GetRootIsGetNodeOfRootId ==
    (IsSome(fetched) /\ Unwrap(fetched).call = "get_root") =>
        /\ Unwrap(fetched).outcome.tag = "ok"
        /\ bytes # <<>>
        /\ IsSome(bytes[1].id)
        /\ CoreDump_get_node(core_dump, bytes, Unwrap(bytes[1].id))
             = Ok(Some(Unwrap(fetched).outcome.v))

\* The strings of a width that the messages of a stream carry as bytes, in
\* the order of the stream.
Interned(stream, width) ==
    LET IsGiven(field) == field[1] = width /\ field[2].oneof = "Given"
        given == SelectSeq(StreamFields(stream), IsGiven)
    IN [k \in 1..Len(given) |-> from_dump_bytes(width, given[k][2].bytes)]

\* The attribute a string field stands for, given the strings the whole stream
\* carries: nothing, its own bytes, or the string of its index.
Attribute(stream, field, width) ==
    CASE field.oneof = "None" -> None
      [] field.oneof = "Given" -> Some(from_dump_bytes(width, field.bytes))
      [] field.oneof = "Ref" -> Some(Interned(stream, width)[field.index + 1])

\* The offset of the message a call materializes: the root message for
\* get_root, the last message of the id for get_node.
Materialized(fetch) ==
    IF fetch.call = "get_root" THEN 1
    ELSE CHOOSE k \in 1..Len(bytes) :
            /\ bytes[k].id = Some(fetch.id)
            /\ \A later \in (k + 1)..Len(bytes) : bytes[later].id # Some(fetch.id)

\* The node a call returned, if it returned one.
ReturnedNode(fetch) ==
    IF fetch.outcome.tag # "ok" THEN None
    ELSE IF fetch.call = "get_root" THEN Some(fetch.outcome.v)
    ELSE fetch.outcome.v

\* Every back-reference of the message at offset k names a string that the
\* messages up to and including it carry as bytes.
RefersBack(k) ==
    LET fields == NodeFields(bytes[k]) IN
    \A f \in 1..Len(fields) :
        fields[f][2].oneof = "Ref" =>
            fields[f][2].index < Len(Interned(SubSeq(bytes, 1, k), fields[f][1]))

\* C13: each interning table holds, at index k, the k-th string of its width
\* that the messages read carry as bytes; an attribute of a materialized node
\* or edge that the message gives as back-reference i is entry i of the table
\* of the attribute's width; and materializing a message whose
\* back-references all name strings introduced no later than the message
\* never fails to find an entry.
C13_BackReferencesResolveInDeclarationOrder ==
    cd_pc # "idle" =>
        /\ core_dump.one_byte_strings = Interned(bytes, 1)
        /\ core_dump.two_byte_strings = Interned(bytes, 2)
        /\ IsSome(fetched) =>
              LET fetch == Unwrap(fetched)
                  node == ReturnedNode(fetch)
              IN /\ IsSome(node) =>
                       LET proto == bytes[Materialized(fetch)] IN
                       /\ Unwrap(node).typeName = Attribute(bytes, proto.TypeNameOrRef, 2)
                       /\ Unwrap(node).JSObjectClassName
                            = Attribute(bytes, proto.JSObjectClassNameOrRef, 1)
                       /\ Unwrap(node).scriptFilename
                            = Attribute(bytes, proto.ScriptFilenameOrRef, 1)
                       /\ Unwrap(node).descriptiveTypeName
                            = Attribute(bytes, proto.descriptiveTypeNameOrRef, 2)
                       /\ Len(Unwrap(node).edges) = Len(proto.edges)
                       /\ \A e \in 1..Len(proto.edges) :
                             Unwrap(node).edges[e].name
                                = Attribute(bytes, proto.edges[e].EdgeNameOrRef, 2)
                 /\ (/\ fetch.outcome.tag = "panic"
                     /\ fetch.outcome.what = "index out of bounds")
                       => ~RefersBack(Materialized(fetch))

\* A node returned whose message gives its type name as back-reference 1,
\* the second two-byte string of the snapshot, introduced by an edge of an
\* earlier message.
C13_Witness ==
    /\ IsSome(fetched)
    /\ IsSome(ReturnedNode(Unwrap(fetched)))
    /\ LET k == Materialized(Unwrap(fetched)) IN
       /\ k > 1
       /\ bytes[k].TypeNameOrRef = BackRef(1)
       /\ Unwrap(ReturnedNode(Unwrap(fetched))).typeName
            = Some(from_dump_bytes(2, <<1, "name">>))

(***************************************************************************)
(* Properties of edges whose referent no node has.                         *)
(***************************************************************************)

\* C14: in a snapshot with edges whose referent is the id of no node, no
\* `next` of a traversal started from nodes of the snapshot fails, and the
\* `referent` field of each such edge is the number.
C14_DanglingEdgesAreNoError ==
    bf_pc # "idle" =>
        /\ bf_pc # "panic"
        /\ \A id \in DOMAIN dump : \A k \in 1..Len(dump[id]) :
              LET edge == dump[id][k] IN
              IsSome(edge.referent) =>
                  get_edge_field(VEdge(edge), "referent")
                      = Ok(Some(VNumber(Unwrap(edge.referent))))

(***************************************************************************)
(* Properties of the folding of predicates.                                *)
(***************************************************************************)

\* What a predicate folds to, by the rules of folding: "true", "false", or
\* "test" when a test is to be planned.  A junction with a dissonant term is
\* the dissonant, one of consonant terms alone is the consonant; `not` swaps
\* the two; a field or `ends` of a trivial predicate is as trivial; `all` of
\* true is true, `any` of false is false.
RECURSIVE Folded(_)
Folded(p) ==
    CASE p.pred \in {"Field", "Ends"} -> Folded(p.sub)
      [] p.pred = "Not" ->
            LET sub == Folded(p.sub) IN
            IF sub = "true" THEN "false" ELSE IF sub = "false" THEN "true" ELSE "test"
      [] p.pred = "All" -> IF Folded(p.sub) = "true" THEN "true" ELSE "test"
      [] p.pred = "Any" -> IF Folded(p.sub) = "false" THEN "false" ELSE "test"
      [] p.pred \in JunctionPreds ->
            LET consonant == IF p.pred = "And" THEN "true" ELSE "false"
                dissonant == IF p.pred = "And" THEN "false" ELSE "true"
            IN IF \E i \in 1..Len(p.subs) : Folded(p.subs[i]) = dissonant THEN dissonant
               ELSE IF \A i \in 1..Len(p.subs) : Folded(p.subs[i]) = consonant THEN consonant
               ELSE "test"
      [] OTHER -> "test"

\* The outcome of the query that is the empty stream.
EmptyStreamWritten == top_write(Ok(VStream(<<>>)))

\* C15: the outcome of a filter by a predicate that folds to true is the
\* outcome of the stream expression itself, and the outcome of a filter by a
\* predicate that folds to false is the empty stream, whatever the stream
\* expression, one that fails included.
C15_TrivialFiltersAreFolded ==
    (q_pc = "done" /\ Unwrap(expr).type = "PredicateOp") =>
        LET folded == Folded(Unwrap(expr).predicate) IN
        /\ folded = "true" =>
              Unwrap(result) = eval(plan_expr(Unwrap(expr).stream, Unwrap(layouts)), FALSE)
        /\ folded = "false" => Unwrap(result) = EmptyStreamWritten

\* A filter by `not and()` of a stream expression that fails, run to the empty
\* stream.
C15_Witness ==
    /\ q_pc = "done"
    /\ Unwrap(expr).type = "PredicateOp"
    /\ Unwrap(expr).predicate = PredUnary("Not", PredJunction("And", <<>>))
    /\ eval(plan_expr(Unwrap(expr).stream, Unwrap(layouts)), FALSE) = Err(EmptyStream)
    /\ Unwrap(result) = EmptyStreamWritten

\* The plan of a filter of `stream` by a predicate folded to k: the plan of
\* the stream, or of the empty stream.
FoldedFilter(stream, k, analysis) ==
    IF k THEN plan_expr(stream, analysis) ELSE [plan |-> "StreamLiteral", elts |-> <<>>]

\* C16: a conjunction without terms plans as trivially true and a disjunction
\* without terms as trivially false; a junction whose terms all fold to its
\* consonant plans as trivially the consonant, and a junction with a term
\* that folds to the dissonant plans as trivially the dissonant, whatever its
\* other terms are.  (A trivial predicate shows in the plan of its filter.)
C16_JunctionsFold ==
    (IsSome(plan) /\ Unwrap(expr).type = "PredicateOp"
       /\ Unwrap(expr).predicate.pred \in JunctionPreds) =>
        LET junction == Unwrap(expr).predicate
            consonant == junction.pred = "And"
            name_of(k) == IF k THEN "true" ELSE "false"
            folded(k) == FoldedFilter(Unwrap(expr).stream, k, Unwrap(layouts))
        IN /\ junction.subs = <<>> => Unwrap(plan) = folded(consonant)
           /\ (\A i \in 1..Len(junction.subs) :
                  Folded(junction.subs[i]) = name_of(consonant))
                 => Unwrap(plan) = folded(consonant)
           /\ (\E i \in 1..Len(junction.subs) :
                  Folded(junction.subs[i]) = name_of(~consonant))
                 => Unwrap(plan) = folded(~consonant)

\* The plan of a filter by a conjunction of a test and a trivially false
\* term: the empty stream.
C16_Witness ==
    /\ IsSome(plan)
    /\ Unwrap(expr).type = "PredicateOp"
    /\ Unwrap(expr).predicate.pred = "And"
    /\ Len(Unwrap(expr).predicate.subs) = 2
    /\ Folded(Unwrap(expr).predicate.subs[1]) = "test"
    /\ Folded(Unwrap(expr).predicate.subs[2]) = "false"
    /\ Unwrap(plan) = [plan |-> "StreamLiteral", elts |-> <<>>]

\* The filters by a conjunction of one term.
FilterBySoleTerm ==
    /\ Unwrap(expr).type = "PredicateOp"
    /\ Unwrap(expr).predicate.pred = "And"
    /\ Len(Unwrap(expr).predicate.subs) = 1

\* The plan of the filter of the same stream by the sole term itself.
PlanBySoleTerm ==
    plan_filter(Unwrap(expr).id, Unwrap(expr).stream, Unwrap(expr).predicate.subs[1],
                Unwrap(layouts))

\* C17, as claimed: a conjunction of exactly one term plans identically to
\* that term, so the filter by the conjunction has the plan of the filter by
\* the term.
C17_SoleTermPlansIdentically ==
    (IsSome(plan) /\ FilterBySoleTerm) => Unwrap(plan) = PlanBySoleTerm

\* C17, amended: a conjunction of exactly one term folds as the term does;
\* when the term does not fold, the plan of the conjunction is the conjunction
\* plan holding the one plan of the term, and the filter by it has the outcome
\* of the filter by the term.
C17_SoleTermTestsIdentically ==
    (q_pc = "done" /\ FilterBySoleTerm) =>
        LET sole == PlanBySoleTerm IN
        /\ Unwrap(result) = eval(sole, FALSE)
        /\ Folded(Unwrap(expr).predicate) = Folded(Unwrap(expr).predicate.subs[1])
        /\ Unwrap(plan) # sole =>
              /\ Unwrap(plan).plan = "Filter"
              /\ sole.plan = "Filter"
              /\ Unwrap(plan) = [sole EXCEPT !.filter = [test |-> "And", subs |-> <<sole.filter>>]]

\* The run of a filter by `and(1)`, whose plan tests And([Equal(1)]), of a
\* stream with an element that passes.
C17_Witness ==
    /\ q_pc = "done"
    /\ FilterBySoleTerm
    /\ Unwrap(plan) # PlanBySoleTerm
    /\ Unwrap(expr).predicate.subs[1] = PredExpr(Number(1))
    /\ Unwrap(result) # EmptyStreamWritten
    /\ IsOk(Unwrap(result))

(***************************************************************************)
(* Queries of `first` and of `ends`, and their properties.                 *)
(***************************************************************************)

\* The streams `first` is applied to and `ends` is tested against: `[]`,
\* `[1]`, `["f", 1]`, `nodes`, `root edges`, and two filters that let nothing
\* pass, `[1] { or() }` and `[1] { "f" }`.
OperandStreams ==
    { StreamLiteral(<<>>),
      StreamLiteral(<<Number(1)>>),
      StreamLiteral(<<String("f"), Number(1)>>),
      Var("Nodes"),
      App(Var("Root"), Var("Edges")),
      PredicateOp(0, StreamLiteral(<<Number(1)>>), PredJunction("Or", <<>>)),
      PredicateOp(0, StreamLiteral(<<Number(1)>>), PredExpr(String("f"))) }

\* `first s`, and `[s] { ends p }` for a predicate p of depth d at most.
OperatorExprs(d) ==
    { App(s, Var("First")) : s \in OperandStreams }
    \cup { PredicateOp(0, StreamLiteral(<<s>>), PredUnary("Ends", p)) :
              s \in OperandStreams, p \in PredsOfDepth(d) }

OperatorInit ==
    /\ QueryInit(NodeOrders)
    /\ \E query \in OperatorExprs(MaxPredDepth - 1) : expr = Some(query)

SpecOperators == OperatorInit /\ [][NextQuery]_vars

\* The outcome of evaluating the expression e of the query on its own.
Evaluated(e) == run(plan_expr(e, Unwrap(layouts)), for_eval, FALSE)

\* C18: `first` of a stream without elements fails with the empty-stream
\* error, and of a stream with elements it is the first of them; `ends p`
\* tested against a stream without elements fails with the empty-stream
\* error, and against a stream with elements it is p tested against the last
\* of them.
C18_FirstAndEndsOfAnEmptyStreamFail ==
    q_pc = "done" =>
        LET e == Unwrap(expr) IN
        /\ (e.type = "App" /\ IsOk(Evaluated(e.arg))) =>
              LET items == Evaluated(e.arg).v.items IN
              Unwrap(result) = IF items = <<>> THEN Err(EmptyStream)
                               ELSE top_write(items[1])
        /\ (e.type = "PredicateOp" /\ IsOk(Evaluated(e.stream.elts[1]))) =>
              LET items == Evaluated(e.stream.elts[1]).v.items
                  verdict == test(NaivePredicate(e.predicate.sub, Unwrap(layouts)),
                                  items[Len(items)].v, for_eval, FALSE)
              IN Unwrap(result) =
                    IF items = <<>> THEN Err(EmptyStream)
                    ELSE IF ~IsOk(verdict) THEN verdict
                    ELSE IF verdict.v THEN top_write(Evaluated(e.stream))
                    ELSE EmptyStreamWritten

(***************************************************************************)
(* Calls of function values: Function::call (query/value.rs) on the        *)
(* closure a lambda evaluates to, on `map` and on the functions the calls  *)
(* return.                                                                 *)
(***************************************************************************)

\* The most formals of a lambda, and the most actuals passed in all.
MaxArity == 3
MaxPassed == 3

FormalNames == <<"a", "b", "c", "d">>

\* The formals of a lambda the parser builds: one name at least.
ParsedFormals == { SubSeq(FormalNames, 1, n) : n \in 1..MaxArity }

\* `|a b c| [a, b, c]`: the stream of the actuals, from left to right.
Listing(formals) ==
    Lambda(0, formals, StreamLiteral([i \in 1..Len(formals) |-> Lexical(0, formals[i])]))

\* `|a b c| a`: the leftmost actual.
Leftmost(formals) == Lambda(0, formals, Lexical(0, formals[1]))

\* The lambdas called: the two above for each arity, and the curried
\* `|a| |b| [a, b]`.
CalledLambdas ==
    { Listing(formals) : formals \in ParsedFormals }
    \cup { Leftmost(formals) : formals \in ParsedFormals }
    \cup { Lambda(0, <<"a">>, Listing(<<"b", "a">>)) }

CallInit ==
    /\ QueryInit({ <<1, 2>> })
    /\ \E query \in CalledLambdas : expr = Some(query)

\* The function the query evaluates to.
Queried == Evaluated(Unwrap(expr)).v.f

\* The function `map` evaluates to.
MapFunction == run(plan_var(Var("Map"), <<>>), for_eval, FALSE).v.f

\* The values passed: two numbers, a stream of them, and the two functions.
ArgValues ==
    { VNumber(1), VNumber(2), VStream(<<Ok(VNumber(1)), Ok(VNumber(2))>>),
      VFunction(Queried), VFunction(MapFunction) }

\* The number of actuals in the slices of `slices`.
RECURSIVE CountPassed(_)
CountPassed(slices) ==
    IF slices = <<>> THEN 0 ELSE Len(Head(slices)) + CountPassed(Tail(slices))

IsFunction(r) == IsOk(r) /\ r.v.t = "function"

\* `function.call(&actuals, cx)`: on the query's value or on `map` at first,
\* and from then on on the function the last call returned.
FunctionCall ==
    /\ q_pc = "done"
    /\ IF returned = None THEN TRUE ELSE IsFunction(Unwrap(returned))
    /\ \E f \in (IF returned = None THEN { Queried, MapFunction }
                 ELSE { Unwrap(returned).v.f }) :
       \E n \in 1..(MaxPassed - CountPassed(passed)) :
       \E actuals \in [1..n -> ArgValues] :
          /\ called_first' = (IF returned = None THEN Some(f) ELSE called_first)
          /\ called' = Some(f)
          /\ passed' = Append(passed, actuals)
          /\ returned' = Some(call(f, actuals, FALSE))
    /\ UNCHANGED notCall

NextCall ==
    \/ NextQuery
    \/ FunctionCall

SpecCall == CallInit /\ [][NextCall]_vars

\* A result that is a panic, or a stream that holds one.
RECURSIVE HasPanic(_)
HasPanic(r) ==
    \/ r = Panicked
    \/ /\ IsOk(r)
       /\ r.v.t = "stream"
       /\ \E i \in 1..Len(r.v.items) : HasPanic(r.v.items[i])

\* C19: a call of a function of arity n with k < n actuals returns a function
\* of arity n - k; every function called, and every function a call returns,
\* has an arity greater than zero, and no call panics.
C19_PartialCallHasTheDeficitAsArity ==
    IsSome(returned) =>
        LET f == Unwrap(called)
            k == Len(passed[Len(passed)])
            r == Unwrap(returned)
        IN
        /\ arity(f) > 0
        /\ ~HasPanic(r)
        /\ k < arity(f) => (IsFunction(r) /\ arity(r.v.f) = arity(f) - k)
        /\ IsFunction(r) => arity(r.v.f) > 0

\* A partial application, called with one actual of the two it awaited,
\* returned a function of arity one.
C19_Witness ==
    /\ IsSome(returned)
    /\ Len(passed) = 2
    /\ Unwrap(called).c = "PartialApp"
    /\ arity(Unwrap(called)) = 2
    /\ Len(passed[2]) = 1
    /\ IsFunction(Unwrap(returned))
    /\ arity(Unwrap(returned).v.f) = 1

\* The actuals of the calls so far from left to right: each call's slice goes
\* to the left of those passed before it.
RECURSIVE LeftToRight(_)
LeftToRight(slices) ==
    IF slices = <<>> THEN <<>> ELSE LeftToRight(Tail(slices)) \o Head(slices)

\* The calls so far have passed the function they began with exactly as many
\* actuals as its arity.
Saturated ==
    /\ IsSome(returned)
    /\ CountPassed(passed) = arity(Unwrap(called_first))

\* C20: when calls of f, and then of the partial applications they return,
\* have passed n = arity(f) actuals in all, the last call returns what one
\* call of f with all the actuals, from left to right, returns: for
\* `|a b c| [a, b, c]` the stream of them and for `|a b c| a` the leftmost;
\* and no call panics in PartialApp's check of the number of actuals.
C20_PartialApplicationIsDirectApplication ==
    /\ IsSome(returned) => Unwrap(returned) # Panicked
    /\ Saturated =>
          LET f == Unwrap(called_first)
              xs == LeftToRight(passed)
          IN
          /\ Unwrap(returned) = call(f, xs, FALSE)
          /\ (f = Queried /\ Unwrap(expr).body.type = "StreamLiteral") =>
                Unwrap(returned) = Ok(VStream([i \in 1..Len(xs) |-> Ok(xs[i])]))
          /\ (f = Queried /\ Unwrap(expr).body.type = "Var") =>
                Unwrap(returned) = Ok(xs[1])

\* Three calls of one actual each have saturated a lambda of three formals,
\* the actuals not all the same.
C20_Witness ==
    /\ Saturated
    /\ Len(passed) = MaxArity
    /\ Unwrap(called_first) = Queried
    /\ Unwrap(expr).body.type = "StreamLiteral"
    /\ passed[1] # passed[2]

\* The latest call passed more actuals than the arity of the function called.
Overapplied ==
    /\ IsSome(returned)
    /\ Len(passed[Len(passed)]) > arity(Unwrap(called))

FixtureEdge(id, field) == [referent |-> Some(id), name |-> Some(field)]

FixtureDump ==
    (16 :> <<FixtureEdge(32, "a"), FixtureEdge(48, "b")>>)
    @@ (32 :> <<FixtureEdge(48, "c")>>)
    @@ (48 :> <<>>)

FixtureAttrs ==
    [id \in DOMAIN FixtureDump |->
        [size |-> IF id = 32 THEN Some(2) ELSE None,
         coarseType |-> "Object",
         typeName |-> IF id = 48 THEN Some("Array") ELSE None,
         JSObjectClassName |-> None,
         scriptFilename |-> None,
         descriptiveTypeName |-> None]]

\* The orders a HashMap of the three nodes can iterate in.
FixtureOrders ==
    { order \in [1..3 -> DOMAIN FixtureDump] :
         \A i, j \in 1..3 : i # j => order[i] # order[j] }

\* `nodes { typeName: /Array/ }`; of the strings of the snapshot the regex
\* matches "Array" alone.
ArrayNodes == PredicateOp(0, Var("Nodes"), PredField("typeName", PredRegex({"Array"})))

\* `first (paths (first (nodes { typeName: /Array/ })))`
FirstPathOfArray == App(App(App(ArrayNodes, Var("First")), Var("Paths")), Var("First"))

\* `paths root`
PathsOfRoot == App(Var("Root"), Var("Paths"))

\* `root { name: "x" }` and `[root] { name: "x" }`
RootNamedX == PredicateOp(0, Var("Root"), PredField("name", PredExpr(String("x"))))
RootInStreamNamedX ==
    PredicateOp(0, StreamLiteral(<<Var("Root")>>), PredField("name", PredExpr(String("x"))))

\* The queries: the two above, and `root`, `edges root`, `nodes { id: 0x30 }`,
\* `nodes { id: 0x20 and size: 1 }`, `(|x| x) root`, `foo`, `first []`,
\* `paths (first (nodes { typeName: /Array/ }))`, `[root] { id: "x" }`.
Scenarios ==
    { FirstPathOfArray, PathsOfRoot, RootNamedX, RootInStreamNamedX,
      Var("Root"),
      App(Var("Root"), Var("Edges")),
      PredicateOp(0, Var("Nodes"), PredField("id", PredExpr(Number(48)))),
      PredicateOp(0, Var("Nodes"),
                  PredJunction("And", <<PredField("id", PredExpr(Number(32))),
                                        PredField("size", PredExpr(Number(1)))>>)),
      App(Var("Root"), Lambda(0, <<"x">>, Lexical(0, "x"))),
      Lexical(0, "foo"),
      App(StreamLiteral(<<>>), Var("First")),
      App(App(ArrayNodes, Var("First")), Var("Paths")),
      PredicateOp(0, StreamLiteral(<<Var("Root")>>), PredField("id", PredExpr(String("x")))) }

ScenarioInit ==
    /\ dump = FixtureDump
    /\ node_order \in FixtureOrders
    /\ node_attrs = FixtureAttrs
    /\ BFIdle
    /\ StreamIdle
    /\ DecoderIdle
    /\ CallIdle
    /\ q_pc = "parsed"
    /\ capture_map = None
    /\ layouts = None
    /\ static_error = None
    /\ plan = None
    /\ result = None
    /\ misread = FALSE
    /\ \E query \in Scenarios : expr = Some(query)

SpecScenario == ScenarioInit /\ [][NextQuery]_vars

\* The labeled query is the scenario `query`, and it has been run.
Ran(query) ==
    /\ q_pc = "done"
    /\ Unwrap(expr) = ExprLabeler_walk_expr(ExprLabeler_new, query)[1]

\* The path from the root to node 48 by the edge `b`.
RootToArray ==
    VStream(<<Ok(VNode(16)), Ok(VEdge(FixtureEdge(48, "b"))), Ok(VNode(48))>>)

\* C22: `first (paths (first (nodes { typeName: /Array/ })))` evaluates to
\* the stream of node 0x10, the edge `b` from the root to 0x30, and node 0x30.
C22_FirstPathOfArrayLeadsFromTheRoot ==
    Ran(FirstPathOfArray) => Unwrap(result) = top_write(Ok(RootToArray))

\* C22, amended: the query fails with the empty-stream error, node 0x30
\* having no edge to start a path with; the stream of node 0x10, the edge
\* `b` and node 0x30 is the second and last path of `paths root`, after the
\* path to 0x20.
C22_PathsLeadFromTheGivenNode ==
    /\ Ran(FirstPathOfArray) => Unwrap(result) = Err(EmptyStream)
    /\ Ran(PathsOfRoot) =>
          Unwrap(result) =
             top_write(Ok(VStream(
                <<Ok(VStream(<<Ok(VNode(16)), Ok(VEdge(FixtureEdge(32, "a"))),
                               Ok(VNode(32))>>)),
                  Ok(RootToArray)>>)))

C22_Witness == Ran(FirstPathOfArray) /\ node_order[1] # 48

\* C23: the query `root { name: "x" }` fails with the no-such-field error.
C23_UnknownFieldOfTheRootIsNoSuchField ==
    Ran(RootNamedX) => Unwrap(result) = Err(NoSuchField("nodes", "name"))

\* C23, amended: the query `root { name: "x" }` fails with a type error, a
\* filter taking a stream and the root being a node; the query
\* `[root] { name: "x" }`, which tests the root node, fails with the
\* no-such-field error.
C23_UnknownFieldOfANodeIsNoSuchField ==
    /\ Ran(RootNamedX) => Unwrap(result) = Err(TypeError("stream", "node"))
    /\ Ran(RootInStreamNamedX) => Unwrap(result) = Err(NoSuchField("nodes", "name"))

C23_Witness == Ran(RootInStreamNamedX) /\ ~IsOk(Unwrap(result))

(***************************************************************************)
(* Further properties of the streams.                                      *)
(***************************************************************************)

\* The latest action was a `next`.
AfterNext == IsSome(last) /\ Unwrap(last).op = "next"

\* C24: when `next` on one handle of a stream has returned an error, every
\* other handle still has the results yet to yield that it had before the
\* call: the error is met by the handle that drew it alone.
C24_ErrorsDoNotPoisonOtherClones ==
    (IsSome(last) /\ Unwrap(last).op = "next" /\ Unwrap(last).result = NextErr) =>
        \A g \in DOMAIN handles \ {Unwrap(last).h} :
            Drain(cells, handles[g]) = expected[g]

\* A `next` has returned an error that another handle of the stream, made
\* before the call, has yet to yield, with a value after it.
C24_Witness ==
    /\ AfterNext
    /\ Unwrap(last).result = NextErr
    /\ \E g \in DOMAIN handles :
          /\ Len(expected[g]) = MaxItems
          /\ expected[g][1] = 0
          /\ expected[g][MaxItems] # 0

\* C25: a `next` on a handle never panics for want of sole ownership; after
\* it the handle is the sole owner of its iterator and so is every adapter
\* of the Stream it holds, down to the vector iterator; and every other
\* handle has the results yet to yield that it had before, whether or not it
\* shared the iterator.
C25_NextStepsAPrivateCopy ==
    AfterNext =>
        LET h == Unwrap(last).h
            chain == CellChain(cells, handles[h])
        IN
        /\ Unwrap(last).result # NextPanic
        /\ \A i \in 1..Len(chain) : strong_count(cells, chain[i]) = 1
        /\ \A g \in DOMAIN handles \ {h} : Drain(cells, handles[g]) = expected[g]

\* The latest `next` was on a filter adapter, and another handle shares the
\* cell the adapter had before the call: the two handles share no cell now,
\* and the caller has drawn a value the other has yet to yield.
C25_Witness ==
    /\ AfterNext
    /\ Unwrap(last).result.tag = "some"
    /\ \E h, g \in DOMAIN handles :
          /\ cells[handles[h]].kind = "filter"
          /\ cells[handles[g]].kind = "filter"
          /\ handles[h] # handles[g]
          /\ cells[handles[h]].inner # cells[handles[g]].inner
          /\ Len(expected[h]) < Len(expected[g])

(***************************************************************************)
(* Generic calls whose argument or function may fail.                      *)
(***************************************************************************)

\* The arguments and functions of the calls: `1`, `[1]`, `first []`, which
\* fails with the empty-stream error, `edges 1`, which fails with a type
\* error, `|a| a`, `|a| edges a` and `map`.
CallOperands ==
    { Number(1),
      StreamLiteral(<<Number(1)>>),
      App(StreamLiteral(<<>>), Var("First")),
      App(Number(1), Var("Edges")),
      Lambda(0, <<"a">>, Lexical(0, "a")),
      Lambda(0, <<"a">>, App(Lexical(0, "a"), Var("Edges"))),
      Var("Map") }

CallPlanInit ==
    /\ QueryInit(NodeOrders)
    /\ \E a \in CallOperands, f \in CallOperands : expr = Some(App(a, f))

SpecCallPlan == CallPlanInit /\ [][NextQuery]_vars

\* C26: a call whose argument fails has the argument's error for its result,
\* whatever the function expression is or fails with; else a call whose
\* function expression fails has that error; else a call of a value that is
\* no function fails with the not-a-function error; else the call is the
\* function's call with the argument.
C26_ArgumentIsEvaluatedBeforeFunction ==
    q_pc = "done" =>
        LET arg == Evaluated(Unwrap(expr).arg)
            fun == Evaluated(Unwrap(expr).fun)
        IN Unwrap(result) =
              IF ~IsOk(arg) THEN arg
              ELSE IF ~IsOk(fun) THEN fun
              ELSE IF fun.v.t # "function" THEN Err(NotAFunction)
              ELSE top_write(call(fun.v.f, <<arg.v>>, FALSE))

\* A call has been run whose argument and function fail with different
\* errors.
C26_Witness ==
    /\ q_pc = "done"
    /\ ~IsOk(Evaluated(Unwrap(expr).arg))
    /\ ~IsOk(Evaluated(Unwrap(expr).fun))
    /\ Evaluated(Unwrap(expr).arg) # Evaluated(Unwrap(expr).fun)

(***************************************************************************)
(* Tests of a stream value: the predicates and the printer draw from a     *)
(* clone of the Stream they are given (`stream.clone().any(..)`), which    *)
(* goes out of scope when they return.                                     *)
(***************************************************************************)

\* Any, All, Ends, Empty and NonEmpty of query/run.rs, and write_stream.
TestKinds == {"Any", "All", "Ends", "Empty", "NonEmpty", "write_stream"}

\* The results of a test.
Verdict(b) == [tag |-> IF b THEN "true" ELSE "false", v |-> 0]
TestErr == [tag |-> "err", v |-> 0]
Written == [tag |-> "written", v |-> 0]

\* The loop of a test over the Stream at cell c: `any`, `all`, `last`, one
\* `next`, or the loop of write_stream; `prev` is the value drawn last.  The
\* element predicate is the one of the filter adapters.
RECURSIVE draw(_, _, _, _)
draw(cs, c, kind, prev) ==
    LET r == stream_next(cs, c)
        ended(verdict) == [cells |-> r.cells, ptr |-> r.ptr, result |-> verdict]
    IN
    CASE r.result = NextPanic -> ended(NextPanic)
      [] r.result = NextErr -> ended(TestErr)
      [] r.result = NextNone ->
            ended(CASE kind = "Any" -> Verdict(FALSE)
                    [] kind = "All" -> Verdict(TRUE)
                    [] kind = "Ends" ->
                          IF prev = None THEN TestErr ELSE Verdict(filter_test(Unwrap(prev)))
                    [] kind = "Empty" -> Verdict(TRUE)
                    [] kind = "NonEmpty" -> Verdict(FALSE)
                    [] kind = "write_stream" -> Written)
      [] OTHER ->
            CASE kind = "Any" /\ filter_test(r.result.v) -> ended(Verdict(TRUE))
              [] kind = "All" /\ ~filter_test(r.result.v) -> ended(Verdict(FALSE))
              [] kind = "Empty" -> ended(Verdict(FALSE))
              [] kind = "NonEmpty" -> ended(Verdict(TRUE))
              [] OTHER -> draw(r.cells, r.ptr, kind, Some(r.result.v))

\* A test that draws from the Stream it is given, not from a clone.
test_stream_in_place(cs, c, kind) == draw(cs, c, kind, None)

\* A test of the Stream at cell c: clone it, draw from the clone, drop the
\* clone.  Yields the cells, the cell of the Stream tested and the result.
test_stream(cs, c, kind) ==
    LET r == draw(rc_inc(cs, c), c, kind, None) IN
    [cells |-> rc_drop(r.cells, r.ptr), ptr |-> c, result |-> r.result]

\* The result due to a test of a stream with `items` yet to yield.
DueVerdict(items, kind) ==
    LET Stops(P(_)) == { i \in 1..Len(items) : items[i] = 0 \/ P(items[i]) }
        First(S) == CHOOSE i \in S : \A j \in S : i <= j
        Pass(v) == filter_test(v)
        Fail(v) == ~filter_test(v)
        Each(v) == TRUE
        Never(v) == FALSE
        AtStop(S, verdict) == IF items[First(S)] = 0 THEN TestErr ELSE verdict
    IN
    CASE kind = "Any" ->
            IF Stops(Pass) = {} THEN Verdict(FALSE) ELSE AtStop(Stops(Pass), Verdict(TRUE))
      [] kind = "All" ->
            IF Stops(Fail) = {} THEN Verdict(TRUE) ELSE AtStop(Stops(Fail), Verdict(FALSE))
      [] kind = "Ends" ->
            IF Stops(Never) # {} \/ items = <<>> THEN TestErr
            ELSE Verdict(filter_test(items[Len(items)]))
      [] kind = "Empty" ->
            IF items = <<>> THEN Verdict(TRUE) ELSE AtStop(Stops(Each), Verdict(FALSE))
      [] kind = "NonEmpty" ->
            IF items = <<>> THEN Verdict(FALSE) ELSE AtStop(Stops(Each), Verdict(TRUE))
      [] kind = "write_stream" -> IF Stops(Never) # {} THEN TestErr ELSE Written

\* A predicate's test of, or the writing of, the Stream of handle h.
StreamTest(h, kind) ==
    LET r == test_stream(cells, handles[h], kind)
        m == Renumbered(r.cells, [handles EXCEPT ![h] = r.ptr])
    IN
    /\ cells' = m[1]
    /\ handles' = m[2]
    /\ last' = Some([op |-> "test",
                     result |-> r.result, due |-> DueVerdict(expected[h], kind)])
    /\ UNCHANGED <<expected, notStream>>

StreamTestAny == \E h \in DOMAIN handles, kind \in TestKinds : StreamTest(h, kind)

\* Streams are cloned, adapted, drawn from and tested; none goes out of scope.
NextStreamTest ==
    \/ StreamCloneAny
    \/ StreamFilterAny
    \/ StreamNextAny
    \/ StreamTestAny

SpecStreamTest == StreamInit /\ [][NextStreamTest]_vars

\* The latest action was a test.
AfterTest == IsSome(last) /\ Unwrap(last).op = "test"

\* C27: a test of a stream value (any, all, ends, empty, non-empty) and the
\* writing of it leave to the handle tested, and to every other handle, the
\* results it had yet to yield before the test, and return the result due;
\* so does a test that ends with an error of the stream.
C27_TestsDoNotConsumeTheStream ==
    AfterTest =>
        /\ Unwrap(last).result = Unwrap(last).due
        /\ \A h \in DOMAIN handles : Drain(cells, handles[h]) = expected[h]

\* A test has drawn values to a verdict from a stream that has all its
\* values yet to yield.
C27_Witness ==
    /\ AfterTest
    /\ Unwrap(last).result.tag \in {"true", "false"}
    /\ \A h \in DOMAIN handles :
          /\ Len(expected[h]) = MaxItems
          /\ expected[h][1] # 0
          /\ Drain(cells, handles[h]) = expected[h]

(***************************************************************************)
(* Termination of the breadth-first traversal.                             *)
(***************************************************************************)

\* The traversal whose consumer keeps calling `next`.
SpecBFLive == BFInit /\ [][NextBF]_vars /\ WF_vars(BFNextSome \/ BFNextNone)

\* The ids a step pushes on the front: those behind what the step left of the
\* front it found.
Pushed ==
    LET kept == IF Len(yielded') > Len(yielded) THEN Len(front) - 1 ELSE Len(front) IN
    { front'[k] : k \in (kept + 1)..Len(front') }

\* The ids `next` has dequeued and yielded.
Dequeued == { yielded[i].id : i \in 1..Len(yielded) }

\* C28: the traversal of a snapshot ends: after finitely many calls `next`
\* returns the end of the stream, and does so ever after; and no step pushes
\* on the front an id that has been dequeued.
C28_TraversalTerminates ==
    /\ <>[](bf_pc = "ended")
    /\ [][Pushed \cap Dequeued' = {}]_vars

(***************************************************************************)
(* Properties of the order of the builder's entries.                       *)
(***************************************************************************)

\* C29: the capture-map builder never fails the assertion of push_at: for
\* every labeled expression it ends with a map or an unbound-variable error,
\* having made an entry for every lambda, predicate-op and use at the index
\* that is its id.
C29_BuilderEntriesAreInIdOrder ==
    q_pc \notin {"idle", "parsed", "labeled"} =>
        CaptureMapBuilder_walk_expr(CaptureMapBuilder_new, Unwrap(expr)).status # Panic

(***************************************************************************)
(* Properties of the variable loads of a run.                              *)
(***************************************************************************)

\* C30: in the run of an analyzed and planned closed expression every
\* variable load is in bounds and reads the activation it was laid out for:
\* the run does not panic on an index beyond the activation's actuals or
\* captured values, and no load reads the slot of another variable.
C30_LoadsAreInBounds ==
    q_pc = "done" =>
        /\ Unwrap(result) # Panicked
        /\ ~misread

====
